---- MODULE Spec2Model ----
(***************************************************************************)
(* A model of goscope's dependency graph (package graph): the graph        *)
(* container (AddVertex, AddEdge), the PageRank scorer (Analyze,           *)
(* computePageRank) and the hotspot extractor (GetTopHotspots).            *)
(*                                                                         *)
(* Scores are float64 in the source.  They are modelled as IEEE-754        *)
(* binary64 values: a sign, a 53-bit significand held as a little-endian   *)
(* sequence of 14-bit limbs, and a binary exponent; every operation is     *)
(* computed exactly and then rounded to nearest, ties to even.  The        *)
(* exponent range is not modelled: the values that occur lie between       *)
(* 2^-60 and 2^60, far from overflow and from the subnormal range.         *)
(***************************************************************************)
EXTENDS Integers, Sequences, FiniteSets, TLC

(***************************************************************************)
(* Natural numbers of arbitrary size: little-endian sequences of 14-bit    *)
(* limbs with no leading (most significant) zero limb; <<>> is 0.          *)
(***************************************************************************)
Limb == 2^14

RECURSIVE BTrim(_)
BTrim(a) ==
  IF a = <<>> THEN a
  ELSE IF a[Len(a)] = 0 THEN BTrim(SubSeq(a, 1, Len(a) - 1)) ELSE a

RECURSIVE BFromInt(_)
BFromInt(n) == IF n = 0 THEN <<>> ELSE <<n % Limb>> \o BFromInt(n \div Limb)

\* the limbs `cols` (each below 2^30) plus the carry c, carries propagated
RECURSIVE BCarry(_, _)
BCarry(cols, c) ==
  IF cols = <<>> THEN BFromInt(c)
  ELSE LET t == Head(cols) + c
       IN  <<t % Limb>> \o BCarry(Tail(cols), t \div Limb)

BLimb(a, i) == IF i >= 1 /\ i <= Len(a) THEN a[i] ELSE 0

BMax(x, y) == IF x > y THEN x ELSE y

BAdd(a, b) ==
  IF a = <<>> THEN b
  ELSE IF b = <<>> THEN a
  ELSE BCarry([i \in 1..BMax(Len(a), Len(b)) |-> BLimb(a, i) + BLimb(b, i)], 0)

\* a - b for a >= b
RECURSIVE BSubC(_, _, _, _)
BSubC(a, b, i, c) ==
  IF i > Len(a) THEN <<>>
  ELSE LET d == a[i] - BLimb(b, i) - c
       IN  <<d % Limb>> \o BSubC(a, b, i + 1, IF d < 0 THEN 1 ELSE 0)

BSub(a, b) == BTrim(BSubC(a, b, 1, 0))

\* -1, 0, 1 as a < b, a = b, a > b
RECURSIVE BCmpAt(_, _, _)
BCmpAt(a, b, i) ==
  IF i = 0 THEN 0
  ELSE IF a[i] < b[i] THEN -1
  ELSE IF a[i] > b[i] THEN 1
  ELSE BCmpAt(a, b, i - 1)

BCmp(a, b) ==
  IF Len(a) < Len(b) THEN -1
  ELSE IF Len(a) > Len(b) THEN 1
  ELSE BCmpAt(a, b, Len(a))

\* a * s for 0 <= s < Limb
BMulSmall(a, s) ==
  IF s = 1 THEN a ELSE BTrim(BCarry([i \in 1..Len(a) |-> a[i] * s], 0))

\* a * b for a and b of at most 4 limbs (two significands): the columns of
\* the schoolbook product, then the carries
BCol(a, b, k) ==
  BLimb(a, 1) * BLimb(b, k) + BLimb(a, 2) * BLimb(b, k - 1)
    + BLimb(a, 3) * BLimb(b, k - 2) + BLimb(a, 4) * BLimb(b, k - 3)

BMul(a, b) ==
  IF a = <<>> \/ b = <<>> THEN <<>>
  ELSE BTrim(BCarry([k \in 1..(Len(a) + Len(b) - 1) |-> BCol(a, b, k)], 0))

\* <<quotient, remainder>> of a by d, 0 < d < Limb
RECURSIVE BDivSmallAt(_, _, _, _)
BDivSmallAt(a, d, i, r) ==
  IF i = 0 THEN <<<<>>, r>>
  ELSE LET cur  == r * Limb + a[i]
           rest == BDivSmallAt(a, d, i - 1, cur % d)
       IN  <<Append(rest[1], cur \div d), rest[2]>>

BDivSmall(a, d) ==
  IF d = 1 THEN <<a, 0>>
  ELSE LET qr == BDivSmallAt(a, d, Len(a), 0)
       IN  <<BTrim(qr[1]), qr[2]>>

\* the number of bits of n
RECURSIVE IntBitLen(_)
IntBitLen(n) ==
  IF n = 0 THEN 0
  ELSE IF n >= 256 THEN 8 + IntBitLen(n \div 256)
  ELSE IF n >= 16 THEN 4 + IntBitLen(n \div 16)
  ELSE IF n >= 4 THEN 2 + IntBitLen(n \div 4)
  ELSE IF n >= 2 THEN 2 ELSE 1

\* a + 1
BInc(a) ==
  IF a # <<>> /\ a[1] + 1 < Limb THEN [a EXCEPT ![1] = @ + 1]
  ELSE BCarry(a, 1)

BBitLen(a) == IF a = <<>> THEN 0 ELSE 14 * (Len(a) - 1) + IntBitLen(a[Len(a)])

BOdd(a) == a # <<>> /\ a[1] % 2 = 1

\* a * 2^k
BShl(a, k) ==
  IF a = <<>> \/ k = 0 THEN a
  ELSE [i \in 1..(k \div 14) |-> 0] \o BMulSmall(a, 2^(k % 14))

\* floor(a / 2^k)
BShr(a, k) ==
  IF k \div 14 >= Len(a) THEN <<>>
  ELSE BDivSmall(SubSeq(a, k \div 14 + 1, Len(a)), 2^(k % 14))[1]

\* a / 2^k rounded to nearest, ties to even, for k below the length of a:
\* the remainder is compared with 2^(k-1) limb by limb
BRoundShr(a, k) ==
  IF k = 0 THEN a
  ELSE LET drop == k \div 14
           bits == k % 14
           qr   == BDivSmall(SubSeq(a, drop + 1, Len(a)), 2^bits)
           top  == IF bits > 0 THEN qr[2] ELSE a[drop]
           half == IF bits > 0 THEN 2^(bits - 1) ELSE Limb \div 2
           low  == IF bits > 0 THEN drop ELSE drop - 1
           c    == IF top > half THEN 1
                   ELSE IF top < half THEN -1
                   ELSE IF \A i \in 1..low : a[i] = 0 THEN 0 ELSE 1
       IN  IF c > 0 \/ (c = 0 /\ BOdd(qr[1])) THEN BInc(qr[1]) ELSE qr[1]

(***************************************************************************)
(* float64.  A value is [s, m, e]: (-1)^s * m * 2^e.  A rounded value has  *)
(* m = <<>> (zero, with e = 0) or a significand of exactly MantBits bits,  *)
(* so equal numbers of the same sign are equal records.                    *)
(***************************************************************************)
MantBits == 53

FZero == [s |-> 0, m |-> <<>>, e |-> 0]

\* round an exact value to float64
FRound(x) ==
  LET L == BBitLen(x.m)
  IN  IF L = 0 THEN [s |-> x.s, m |-> <<>>, e |-> 0]
      ELSE IF L <= MantBits
        THEN [s |-> x.s, m |-> BShl(x.m, MantBits - L), e |-> x.e - (MantBits - L)]
      ELSE LET q == BRoundShr(x.m, L - MantBits)
           IN  IF BBitLen(q) > MantBits
                 THEN [s |-> x.s, m |-> BShr(q, 1), e |-> x.e + (L - MantBits) + 1]
                 ELSE [s |-> x.s, m |-> q, e |-> x.e + (L - MantBits)]

\* exact product and exact sum of two values
XMul(a, b) ==
  [s |-> (a.s + b.s) % 2, m |-> BMul(a.m, b.m), e |-> a.e + b.e]

XAdd(a, b) ==
  IF a.m = <<>> /\ b.m = <<>> THEN [s |-> a.s * b.s, m |-> <<>>, e |-> 0]
  ELSE IF a.m = <<>> THEN b
  ELSE IF b.m = <<>> THEN a
  ELSE LET e  == IF a.e < b.e THEN a.e ELSE b.e
           am == BShl(a.m, a.e - e)
           bm == BShl(b.m, b.e - e)
       IN  IF a.s = b.s THEN [s |-> a.s, m |-> BAdd(am, bm), e |-> e]
           ELSE IF BCmp(am, bm) = 0 THEN [s |-> 0, m |-> <<>>, e |-> 0]
           ELSE IF BCmp(am, bm) > 0 THEN [s |-> a.s, m |-> BSub(am, bm), e |-> e]
           ELSE [s |-> b.s, m |-> BSub(bm, am), e |-> e]

FNeg(a) == [a EXCEPT !.s = 1 - a.s]

\* float64(n) for an int n, |n| < 2^31
FInt(n) ==
  FRound([s |-> IF n < 0 THEN 1 ELSE 0,
          m |-> BFromInt(IF n < 0 THEN 0 - n ELSE n), e |-> 0])

FAdd(a, b) == FRound(XAdd(a, b))
FSub(a, b) == FRound(XAdd(a, FNeg(b)))
FMul(a, b) == FRound(XMul(a, b))

\* a*b + c with one rounding (a fused multiply-add)
FMA(a, b, c) == FRound(XAdd(XMul(a, b), c))

\* a / float64(d) for an int 0 < d < Limb: the quotient is taken to three
\* bits more than the significand, the last one set when the division
\* leaves a remainder
FDivInt(a, d) ==
  IF a.m = <<>> \/ d = 1 THEN a
  ELSE LET k  == IntBitLen(d) + 3
           qr == BDivSmall(BShl(a.m, k), d)
       IN  FRound([s |-> a.s,
                   m |-> IF qr[2] # 0 /\ ~BOdd(qr[1])
                           THEN [qr[1] EXCEPT ![1] = @ + 1] ELSE qr[1],
                   e |-> a.e - k])

FIsZero(a) == a.m = <<>>
FIsNeg(a)  == a.s = 1 /\ a.m # <<>>

\* a == b and a > b on rounded values, as Go compares float64
FEq(a, b) == (FIsZero(a) /\ FIsZero(b)) \/ a = b

FMagGreater(a, b) ==
  IF FIsZero(a) THEN FALSE
  ELSE IF FIsZero(b) THEN TRUE
  ELSE IF a.e # b.e THEN a.e > b.e
  ELSE BCmp(a.m, b.m) > 0

FGreater(a, b) ==
  IF FIsNeg(a) /\ FIsNeg(b) THEN FMagGreater(b, a)
  ELSE IF FIsNeg(a) THEN FALSE
  ELSE IF FIsNeg(b) THEN TRUE
  ELSE FMagGreater(a, b)


(***************************************************************************)
(* The program state: one DependencyGraph, the position of its caller,     *)
(* and the locals of computePageRank and GetTopHotspots.                   *)
(***************************************************************************)
VARIABLES
  Vertices,        \* g.Vertices: the set of keys mapped to true
  Edges,           \* g.Edges: a sequence of <<source, target>>
  adjacency,       \* g.adjacency: vertex -> set of targets (keys present only)
  reverseAdj,      \* g.reverseAdj: vertex -> set of sources
  PageRankScores,  \* g.PageRankScores: vertex -> float64
  pc,              \* the caller's position: "build", "built", "rank", "scored", "panic"
  call,            \* the last call made on the graph and its arguments
  scores,          \* computePageRank's local map scores
  iter,            \* computePageRank's loop counter i
  fused,           \* whether the build fuses x + y*z into one rounding
  hotspots,        \* the slice the last GetTopHotspots returned
  files,           \* the parsed-file list handed to Build (and, per component, to the report)
  disk,            \* file path -> the content a read returns, or Unreadable
  gdata,           \* the gData the last buildDeclGraph returned
  scan,            \* parseParallel: scanResult.Files and the files whose parse yields a record
  jobs,            \* parseParallel: the jobs channel (buffer, closed)
  results,         \* parseParallel: the results channel (buffer, closed)
  wg,              \* parseParallel: the WaitGroup counter
  worker,          \* parseParallel: each worker goroutine's position and file
  ppc,             \* parseParallel: the positions of the caller and of the closing goroutine
  parsed           \* parseParallel: the slice parsed

vars == <<Vertices, Edges, adjacency, reverseAdj, PageRankScores, pc, call,
          scores, iter, fused, hotspots,
          files, disk, gdata, scan, jobs, results, wg, worker, ppc, parsed>>

graphVars == <<Vertices, Edges, adjacency, reverseAdj>>
rankVars  == <<PageRankScores, scores, iter, fused, hotspots>>
feedVars  == <<files, disk>>
parseVars == <<scan, jobs, results, wg, worker, ppc, parsed>>

\* the state outside the graph and its scorer
outside == <<feedVars, gdata, parseVars>>

\* The vertex ids (file paths) the calls draw from.
NameTable == <<"A", "B", "C", "D", "E", "F">>
NumNames == 3
Names == {NameTable[k] : k \in 1..NumNames}

\* The calls of a run stop once the edge list holds MaxEdges edges.
MaxEdges == 3

EmptyMap == [x \in {} |-> {}]

\* m[k] of a Go map of sets: the empty (nil) set for a missing key
Get(m, k) == IF k \in DOMAIN m THEN m[k] ELSE {}

\* m[k] = val of a Go map
Put(m, k, val) == [x \in DOMAIN m \cup {k} |-> IF x = k THEN val ELSE m[x]]

NoCall == [op |-> "none"]

\* no parsed files, nothing on disk, no subgraph extracted
NoFiles ==
  /\ files = <<>>
  /\ disk = EmptyMap
  /\ gdata = [Nodes |-> <<>>, Links |-> <<>>]

\* parseParallel is not running
NoParse ==
  /\ scan = [Files |-> <<>>, yields |-> {}]
  /\ jobs = [buf |-> <<>>, closed |-> FALSE]
  /\ results = [buf |-> <<>>, closed |-> FALSE]
  /\ wg = 0
  /\ worker = EmptyMap
  /\ ppc = [main |-> "none", closer |-> "none", w |-> 0, next |-> 1]
  /\ parsed = <<>>

\* graph.New()
New ==
  /\ Vertices = {}
  /\ Edges = <<>>
  /\ adjacency = EmptyMap
  /\ reverseAdj = EmptyMap
  /\ PageRankScores = EmptyMap

Init ==
  /\ New
  /\ pc = "build"
  /\ call = NoCall
  /\ scores = EmptyMap
  /\ iter = 0
  /\ fused = FALSE
  /\ hotspots = <<>>
  /\ NoFiles
  /\ NoParse

\* AddVertex making both sets anew whether or not they exist
AddVertexReset(v) ==
  /\ pc = "build"
  /\ Vertices' = Vertices \cup {v}
  /\ adjacency' = Put(adjacency, v, {})
  /\ reverseAdj' = Put(reverseAdj, v, {})
  /\ call' = [op |-> "AddVertex", v |-> v, fresh |-> v \notin Vertices]
  /\ UNCHANGED <<Edges, pc>>
  /\ UNCHANGED rankVars
  /\ UNCHANGED outside

\* g.AddVertex(v)
AddVertex(v) ==
  /\ pc = "build"
  /\ Vertices' = Vertices \cup {v}
  /\ adjacency' = IF v \in DOMAIN adjacency THEN adjacency ELSE Put(adjacency, v, {})
  /\ reverseAdj' = IF v \in DOMAIN reverseAdj THEN reverseAdj ELSE Put(reverseAdj, v, {})
  /\ call' = [op |-> "AddVertex", v |-> v, fresh |-> v \notin Vertices]
  /\ UNCHANGED <<Edges, pc>>
  /\ UNCHANGED rankVars
  /\ UNCHANGED outside

\* AddEdge without the source == target test
RejectsEndpointsSelfLoop(source, target) ==
  source \notin Vertices \/ target \notin Vertices

\* AddEdge testing only the source for membership
RejectsEndpointsSourceOnly(source, target) ==
  source = target \/ source \notin Vertices

\* the two early returns of AddEdge
RejectsEndpoints(source, target) ==
  source = target \/ source \notin Vertices \/ target \notin Vertices

\* AddEdge looking the pair up in the wrong direction
RejectsDuplicateReverse(source, target) == source \in Get(adjacency, target)

RejectsDuplicate(source, target) == target \in Get(adjacency, source)

\* AddEdge without its second early return
RejectsOnlyEndpoints(source, target) == RejectsEndpoints(source, target)

Rejects(source, target) ==
  RejectsEndpoints(source, target) \/ RejectsDuplicate(source, target)

\* AddEdge recording the edge in the list and in the forward index only
AddEdgeForwardOnly(source, target) ==
  /\ pc = "build"
  /\ Len(Edges) < MaxEdges
  /\ IF Rejects(source, target)
       THEN UNCHANGED graphVars
       ELSE /\ Edges' = Append(Edges, <<source, target>>)
            /\ adjacency' = Put(adjacency, source, Get(adjacency, source) \cup {target})
            /\ UNCHANGED <<Vertices, reverseAdj>>
  /\ call' = [op |-> "AddEdge", source |-> source, target |-> target,
              rejected |-> Rejects(source, target)]
  /\ UNCHANGED pc
  /\ UNCHANGED rankVars
  /\ UNCHANGED outside

\* g.AddEdge(source, target)
AddEdge(source, target) ==
  /\ pc = "build"
  /\ Len(Edges) < MaxEdges
  /\ IF Rejects(source, target)
       THEN UNCHANGED graphVars
       ELSE /\ Edges' = Append(Edges, <<source, target>>)
            /\ adjacency' = Put(adjacency, source, Get(adjacency, source) \cup {target})
            /\ reverseAdj' = Put(reverseAdj, target, Get(reverseAdj, target) \cup {source})
            /\ UNCHANGED Vertices
  /\ call' = [op |-> "AddEdge", source |-> source, target |-> target,
              rejected |-> Rejects(source, target)]
  /\ UNCHANGED pc
  /\ UNCHANGED rankVars
  /\ UNCHANGED outside

\* g.OutDegree(v), g.InDegree(v)
OutDegree(v) == Cardinality(Get(adjacency, v))
InDegree(v)  == Cardinality(Get(reverseAdj, v))

Next ==
  \/ \E v \in Names : AddVertex(v)
  \/ \E s, t \in Names : AddEdge(s, t)

Spec == Init /\ [][Next]_vars

(***************************************************************************)
(* Scoring and hotspot extraction.  The run starts from a graph that       *)
(* Build has completed: any vertex set and any set of edges without        *)
(* self-loops between its vertices, as AddVertex and AddEdge produce them. *)
(***************************************************************************)
\* The vertex ids of the scored graphs: the first n, for every n.
RankTable == <<"A", "B", "C", "D">>

\* The pairs that may be edges of a scored graph: the first NumRankPairs
\* of this table (the pairs of A, B, C, then those that touch D).  Five
\* pairs give every directed graph on three vertices up to renaming, but
\* for the complete one.
PairTable ==
  << <<"A", "B">>, <<"B", "C">>, <<"C", "A">>, <<"A", "C">>, <<"B", "A">>, <<"C", "B">>,
     <<"A", "D">>, <<"B", "D">>, <<"D", "A">>, <<"C", "D">>, <<"D", "B">>, <<"D", "C">> >>
NumRankPairs == 5
RankPairs ==
  {PairTable[k] : k \in 1..(IF NumRankPairs < Len(PairTable) THEN NumRankPairs ELSE Len(PairTable))}

\* GetTopHotspots is called with the limits -1..MaxLimit, and with the
\* limits of the program's two calls.
MaxLimit == 2
MainLimit == 5
ReportLimit == 30
Limits == (-1..MaxLimit) \cup {MainLimit, ReportLimit}

\* Analyze's arguments to computePageRank
Damping == FDivInt(FInt(85), 100)
Iterations == 100

\* the injective sequences that enumerate a set: the orders in which a
\* range over a Go map may visit its keys
Perms(S) ==
  {f \in [1..Cardinality(S) -> S] : \A a, b \in 1..Cardinality(S) : f[a] = f[b] => a = b}

InitRank ==
  /\ \E n \in 0..Len(RankTable) :
       \E E \in SUBSET {p \in RankPairs : p[1] \in {RankTable[k] : k \in 1..n}
                                         /\ p[2] \in {RankTable[k] : k \in 1..n}} :
         /\ Vertices = {RankTable[k] : k \in 1..n}
         /\ Edges = CHOOSE f \in Perms(E) : TRUE
         /\ adjacency = [v \in Vertices |-> {t \in Vertices : <<v, t>> \in E}]
         /\ reverseAdj = [v \in Vertices |-> {u \in Vertices : <<u, v>> \in E}]
  /\ PageRankScores = EmptyMap
  /\ pc = "built"
  /\ call = NoCall
  /\ scores = EmptyMap
  /\ iter = 0
  /\ fused \in BOOLEAN
  /\ hotspots = <<>>
  /\ NoFiles
  /\ NoParse

\* scores[k] of a Go map of float64: 0 for a missing key
Score(m, k) == IF k \in DOMAIN m THEN m[k] ELSE FZero

\* the base mass with its operands swapped: (damping - 1.0) / n
BaseMassSwapped(n) == FDivInt(FSub(Damping, FInt(1)), n)

\* the base mass without its division by n
BaseMassUndivided(n) == FSub(FInt(1), Damping)

\* (1.0 - damping) / n
BaseMass(n) == FDivInt(FSub(FInt(1), Damping), n)

\* the share added without the damping factor
AccumulateUndamped(x, share) == FAdd(x, share)

\* newScores[neighbor] += damping * share
Accumulate(x, share) ==
  IF fused THEN FMA(Damping, share, x) ELSE FAdd(x, FMul(Damping, share))

\* the vertices the second loop does not skip
Sources == {v \in Vertices : Get(adjacency, v) # {}}

\* The orders in which the second loop may visit the vertices, up to the
\* orders that add the same terms to every new score in the same sequence:
\* the order of two vertices matters only when they share a neighbor.
Contended ==
  {v \in Sources : \E u \in Sources \ {v} : Get(adjacency, u) \cap Get(adjacency, v) # {}}

VisitOrders ==
  LET rest == CHOOSE f \in Perms(Sources \ Contended) : TRUE
  IN  {f \o rest : f \in Perms(Contended)}

\* the second loop updating the scores in place: the share is taken from
\* the map being written
RECURSIVE DistributeInPlace(_, _, _)
DistributeInPlace(new, old, order) ==
  IF order = <<>> THEN new
  ELSE LET v         == Head(order)
           neighbors == Get(adjacency, v)
           share     == FDivInt(Score(new, v), Cardinality(neighbors))
           added     == [x \in DOMAIN new \cup neighbors |->
                           IF x \in neighbors
                             THEN Accumulate(Score(new, x), share)
                             ELSE new[x]]
       IN  DistributeInPlace(added, old, Tail(order))

\* the second loop of an iteration, visiting the vertices in `order`
RECURSIVE Distribute(_, _, _)
Distribute(new, old, order) ==
  IF order = <<>> THEN new
  ELSE LET v         == Head(order)
           neighbors == Get(adjacency, v)
           share     == FDivInt(Score(old, v), Cardinality(neighbors))
           added     == [x \in DOMAIN new \cup neighbors |->
                           IF x \in neighbors
                             THEN Accumulate(Score(new, x), share)
                             ELSE new[x]]
       IN  Distribute(added, old, Tail(order))

\* an iteration that does not start the new map from the base mass
IterationCarry(old, order) ==
  LET base == BaseMass(Cardinality(Vertices))
  IN  Distribute([v \in Vertices |-> FAdd(old[v], base)], old, order)

\* one iteration of the loop: the new score map
Iteration(old, order) ==
  LET base == BaseMass(Cardinality(Vertices))
  IN  Distribute([v \in Vertices |-> base], old, order)

\* g.Analyze(): computePageRank up to its loop
Analyze ==
  /\ pc = "built"
  /\ IF Cardinality(Vertices) = 0
       THEN /\ pc' = "scored"
            /\ UNCHANGED scores
       ELSE /\ scores' = LET first == FDivInt(FInt(1), Cardinality(Vertices))
                         IN  [v \in Vertices |-> first]
            /\ pc' = "rank"
  /\ iter' = 0
  /\ call' = [op |-> "Analyze"]
  /\ UNCHANGED graphVars
  /\ UNCHANGED <<PageRankScores, fused, hotspots>>
  /\ UNCHANGED outside

\* one pass of computePageRank's loop; the range over g.Vertices visits
\* the vertices in any order
Iterate ==
  /\ pc = "rank"
  /\ iter < Iterations
  /\ \E order \in VisitOrders : scores' = Iteration(scores, order)
  /\ iter' = iter + 1
  /\ UNCHANGED graphVars
  /\ UNCHANGED <<PageRankScores, pc, call, fused, hotspots>>
  /\ UNCHANGED outside

\* computePageRank leaving its loop after any number of passes
FinishEarly ==
  /\ pc = "rank"
  /\ PageRankScores' = scores
  /\ pc' = "scored"
  /\ UNCHANGED graphVars
  /\ UNCHANGED <<call, scores, iter, fused, hotspots>>
  /\ UNCHANGED outside

\* the end of computePageRank
Finish ==
  /\ pc = "rank"
  /\ iter = Iterations
  /\ PageRankScores' = scores
  /\ pc' = "scored"
  /\ UNCHANGED graphVars
  /\ UNCHANGED <<call, scores, iter, fused, hotspots>>
  /\ UNCHANGED outside

\* the comparison the other way round
LessAscending(a, b) == FGreater(b.Score, a.Score)

\* the comparison GetTopHotspots sorts by
Less(a, b) == FGreater(a.Score, b.Score)

Swap(seq, i, j) == [seq EXCEPT ![i] = seq[j], ![j] = seq[i]]

\* sort.Slice on fewer than 12 entries is an insertion sort
RECURSIVE SiftDown(_, _)
SiftDown(seq, j) ==
  IF j > 1 /\ Less(seq[j], seq[j - 1]) THEN SiftDown(Swap(seq, j, j - 1), j - 1)
  ELSE seq

RECURSIVE InsertionSort(_, _)
InsertionSort(seq, i) ==
  IF i > Len(seq) THEN seq ELSE InsertionSort(SiftDown(seq, i), i + 1)

SortSlice(entries) == InsertionSort(entries, 2)

\* the entries GetTopHotspots collects when the range over
\* g.PageRankScores visits the keys in `order`
Entries(order) ==
  [k \in 1..Len(order) |-> [Path |-> order[k], Score |-> PageRankScores[order[k]]]]

\* entries[:limit] panics for a negative limit
Panics(entries, limit) == Len(entries) > limit /\ limit < 0

\* keeping the last `limit` entries
TruncateTail(entries, limit) ==
  IF Len(entries) > limit
    THEN SubSeq(entries, Len(entries) - limit + 1, Len(entries)) ELSE entries

Truncate(entries, limit) ==
  IF Len(entries) > limit THEN SubSeq(entries, 1, limit) ELSE entries

\* g.GetTopHotspots(limit)
GetTopHotspots(limit) ==
  /\ pc = "scored"
  /\ \E order \in Perms(DOMAIN PageRankScores) :
       LET entries == SortSlice(Entries(order))
       IN  IF Panics(entries, limit)
             THEN /\ pc' = "panic"
                  /\ UNCHANGED hotspots
             ELSE /\ hotspots' = Truncate(entries, limit)
                  /\ UNCHANGED pc
  /\ call' = [op |-> "GetTopHotspots", limit |-> limit]
  /\ UNCHANGED graphVars
  /\ UNCHANGED <<PageRankScores, scores, iter, fused>>
  /\ UNCHANGED outside

\* runAnalyze after Build: Analyze, then the program's two GetTopHotspots
\* calls
NextRank ==
  \/ Analyze
  \/ Iterate
  \/ Finish
  \/ \E limit \in {MainLimit, ReportLimit} : GetTopHotspots(limit)

SpecRank == InitRank /\ [][NextRank]_vars

(***************************************************************************)
(* GetTopHotspots on its own: it reads only the score map and its limit,   *)
(* so it is applied to every map from the first n vertices to the scores   *)
(* 1/8 .. NumScoreValues/8 (equal scores included) and to every limit of   *)
(* Limits.                                                                 *)
(***************************************************************************)
NumScoreValues == 3
ScoreValues == {FDivInt(FInt(k), 8) : k \in 1..NumScoreValues}

InitTop ==
  /\ \E n \in 0..Len(RankTable) :
       /\ Vertices = {RankTable[k] : k \in 1..n}
       /\ PageRankScores \in [{RankTable[k] : k \in 1..n} -> ScoreValues]
  /\ Edges = <<>>
  /\ adjacency = [v \in Vertices |-> {}]
  /\ reverseAdj = [v \in Vertices |-> {}]
  /\ pc = "scored"
  /\ call = NoCall
  /\ scores = PageRankScores
  /\ iter = Iterations
  /\ fused = FALSE
  /\ hotspots = <<>>
  /\ NoFiles
  /\ NoParse

NextTop == \E limit \in Limits : GetTopHotspots(limit)

SpecTop == InitTop /\ [][NextTop]_vars

(***************************************************************************)
(* Build.  Strings that the code takes apart (paths, imports, names, file  *)
(* contents) are sequences of one-character strings; a parsed file is a    *)
(* record with the fields of parser.ParsedFile that Build and the report   *)
(* read.                                                                   *)
(***************************************************************************)
RECURSIVE LastIndexByte(_, _, _)
\* the last position up to i at which s holds the character c, or 0
LastIndexByte(s, c, i) ==
  IF i = 0 THEN 0 ELSE IF s[i] = c THEN i ELSE LastIndexByte(s, c, i - 1)

\* ParsedFile.FileName(): the path after its last '/'
FileName(path) == SubSeq(path, LastIndexByte(path, "/", Len(path)) + 1, Len(path))

\* ParsedFile.FileNameWithoutExt(): the file name before its last '.'
FileNameWithoutExt(path) ==
  LET name == FileName(path)
      i    == LastIndexByte(name, ".", Len(name))
  IN  IF i = 0 THEN name ELSE SubSeq(name, 1, i - 1)

\* parts := strings.Split(imp, "/"); parts[len(parts)-1]
LastSegment(imp) == SubSeq(imp, LastIndexByte(imp, "/", Len(imp)) + 1, Len(imp))

LowerCase == {"a", "b", "c", "d", "e", "f", "g", "h", "i", "j", "k", "l", "m",
              "n", "o", "p", "q", "r", "s", "t", "u", "v", "w", "x", "y", "z"}
UpperCase == {"A", "B", "C", "D", "E", "F", "G", "H", "I", "J", "K", "L", "M",
              "N", "O", "P", "Q", "R", "S", "T", "U", "V", "W", "X", "Y", "Z"}
Digits == {"0", "1", "2", "3", "4", "5", "6", "7", "8", "9"}

isWordChar(b) == b \in LowerCase \cup UpperCase \cup Digits \cup {"_"}

RECURSIVE IndexFrom(_, _, _)
\* idx + strings.Index(content[idx:], typeName), in positions from 1;
\* 0 when there is no occurrence
IndexFrom(content, typeName, idx) ==
  IF idx + Len(typeName) - 1 > Len(content) THEN 0
  ELSE IF SubSeq(content, idx, idx + Len(typeName) - 1) = typeName THEN idx
  ELSE IndexFrom(content, typeName, idx + 1)

RECURSIVE containsTypeNameFrom(_, _, _)
\* the loop of containsTypeName, from position idx
containsTypeNameFrom(content, typeName, idx) ==
  LET pos == IndexFrom(content, typeName, idx)
  IN  IF pos = 0 THEN FALSE
      ELSE LET before == pos > 1 /\ isWordChar(content[pos - 1])
               after  == /\ pos + Len(typeName) <= Len(content)
                         /\ isWordChar(content[pos + Len(typeName)])
           IN  IF ~before /\ ~after THEN TRUE
               ELSE IF pos + Len(typeName) > Len(content) THEN FALSE
               ELSE containsTypeNameFrom(content, typeName, pos + Len(typeName))

containsTypeName(content, typeName) == containsTypeNameFrom(content, typeName, 1)

\* readFileContent(path): the content and whether the read failed; the
\* content of a failed read is the empty string
readFileContent(d, path) ==
  IF d[path].err THEN [content |-> <<>>, err |-> TRUE]
  ELSE [content |-> d[path].data, err |-> FALSE]

\* a graph as a value: the four fields that AddVertex and AddEdge write
EmptyGraph ==
  [Vertices |-> {}, Edges |-> <<>>, adjacency |-> EmptyMap, reverseAdj |-> EmptyMap]

\* g after g.AddVertex(v)
WithVertex(g, v) ==
  [g EXCEPT !.Vertices = @ \cup {v},
            !.adjacency = IF v \in DOMAIN @ THEN @ ELSE Put(@, v, {}),
            !.reverseAdj = IF v \in DOMAIN @ THEN @ ELSE Put(@, v, {})]

\* g after g.AddEdge(source, target)
WithEdge(g, source, target) ==
  IF source = target \/ source \notin g.Vertices \/ target \notin g.Vertices THEN g
  ELSE IF target \in Get(g.adjacency, source) THEN g
  ELSE [g EXCEPT !.Edges = Append(@, <<source, target>>),
                 !.adjacency = Put(@, source, Get(@, source) \cup {target}),
                 !.reverseAdj = Put(@, target, Get(@, target) \cup {source})]

RECURSIVE WithVertices(_, _)
\* Build's first loop: the vertices
WithVertices(g, fs) ==
  IF fs = <<>> THEN g ELSE WithVertices(WithVertex(g, Head(fs).FilePath), Tail(fs))

\* a key written once: the first file with a name keeps it
PutIfAbsent(m, k, val) == IF k \in DOMAIN m THEN m ELSE Put(m, k, val)

RECURSIVE NameToPathFirst(_, _)
NameToPathFirst(m, fs) ==
  IF fs = <<>> THEN m
  ELSE LET f  == Head(fs)
           m1 == PutIfAbsent(m, FileNameWithoutExt(f.FilePath), f.FilePath)
           m2 == IF f.ModuleName # <<>> THEN PutIfAbsent(m1, f.ModuleName, f.FilePath) ELSE m1
       IN  NameToPathFirst(m2, Tail(fs))

RECURSIVE NameToPath(_, _)
\* Build's first loop: the lookup from bare file name and module name to
\* path; a later file overwrites the entry of an earlier one
NameToPath(m, fs) ==
  IF fs = <<>> THEN m
  ELSE LET f  == Head(fs)
           m1 == Put(m, FileNameWithoutExt(f.FilePath), f.FilePath)
           m2 == IF f.ModuleName # <<>> THEN Put(m1, f.ModuleName, f.FilePath) ELSE m1
       IN  NameToPath(m2, Tail(fs))

RECURSIVE WithImports(_, _, _, _)
\* the edges of one file's imports
WithImports(g, src, imports, nameToPath) ==
  IF imports = <<>> THEN g
  ELSE LET baseName == LastSegment(Head(imports))
           g1 == IF baseName \in DOMAIN nameToPath
                   THEN WithEdge(g, src.FilePath, nameToPath[baseName]) ELSE g
       IN  WithImports(g1, src, Tail(imports), nameToPath)

RECURSIVE WithImportEdges(_, _, _)
\* Build's second loop: the import-based edges
WithImportEdges(g, fs, nameToPath) ==
  IF fs = <<>> THEN g
  ELSE WithImportEdges(WithImports(g, Head(fs), Head(fs).Imports, nameToPath),
                       Tail(fs), nameToPath)

\* the key of byMS for a file
MsKey(f) == IF f.MicroserviceName = "" THEN "__root__" ELSE f.MicroserviceName

\* byMS[ms]
FilesOfMS(fs, ms) == SelectSeq(fs, LAMBDA f : MsKey(f) = ms)

\* the kinds whose declarations buildTypeRefEdges looks for
RefKinds == {"struct", "interface", "message", "service"}

RECURSIVE RefDecls(_)
\* buildTypeRefEdges: decls before the cap
RefDecls(fs) ==
  IF fs = <<>> THEN <<>>
  ELSE LET f    == Head(fs)
           kept == SelectSeq(f.Declarations,
                             LAMBDA d : d.Kind \in RefKinds /\ Len(d.Name) >= 3)
       IN  [k \in 1..Len(kept) |-> [name |-> kept[k].Name, path |-> f.FilePath]]
             \o RefDecls(Tail(fs))

\* a cap of one candidate
CapDeclsAtOne(decls) == IF Len(decls) > 1 THEN SubSeq(decls, 1, 1) ELSE decls

\* if len(decls) > 500 { decls = decls[:500] }
CapDecls(decls) == IF Len(decls) > 500 THEN SubSeq(decls, 1, 500) ELSE decls

RECURSIVE WithRefs(_, _, _, _)
\* the inner loop of the scan: the edges from f to the files declaring
\* the names that its content holds
WithRefs(g, f, content, decls) ==
  IF decls = <<>> THEN g
  ELSE LET d  == Head(decls)
           g1 == IF d.path # f.FilePath /\ containsTypeName(content, d.name)
                   THEN WithEdge(g, f.FilePath, d.path) ELSE g
       IN  WithRefs(g1, f, content, Tail(decls))

RECURSIVE ScanFilesBreak(_, _, _, _)
\* a scan that stops at the first file it cannot read
ScanFilesBreak(g, fs, decls, d) ==
  IF fs = <<>> THEN g
  ELSE LET read == readFileContent(d, Head(fs).FilePath)
       IN  IF read.err THEN g
           ELSE ScanFilesBreak(WithRefs(g, Head(fs), read.content, decls), Tail(fs), decls, d)

RECURSIVE ScanFiles(_, _, _, _)
\* buildTypeRefEdges: the scan of the files' contents; a file whose read
\* fails is passed over
ScanFiles(g, fs, decls, d) ==
  IF fs = <<>> THEN g
  ELSE LET read == readFileContent(d, Head(fs).FilePath)
       IN  IF read.err THEN ScanFiles(g, Tail(fs), decls, d)
           ELSE ScanFiles(WithRefs(g, Head(fs), read.content, decls), Tail(fs), decls, d)

\* g.buildTypeRefEdges(files)
buildTypeRefEdges(g, fs, d) == ScanFiles(g, fs, CapDecls(RefDecls(fs)), d)

RECURSIVE WithTypeRefEdges(_, _, _, _)
\* Build's last loop, over byMS in the order msOrder
WithTypeRefEdges(g, fs, msOrder, d) ==
  IF msOrder = <<>> THEN g
  ELSE WithTypeRefEdges(buildTypeRefEdges(g, FilesOfMS(fs, Head(msOrder)), d),
                        fs, Tail(msOrder), d)

\* the keys of byMS
MsKeys(fs) == {MsKey(fs[k]) : k \in 1..Len(fs)}

\* Build's first two loops alone
ImportGraph(fs) ==
  WithImportEdges(WithVertices(EmptyGraph, fs), fs, NameToPath(EmptyMap, fs))

\* the graph that Build(fs) leaves when it starts from an empty graph,
\* the files' contents are d and the range over byMS goes in msOrder
BuildGraph(fs, d, msOrder) == WithTypeRefEdges(ImportGraph(fs), fs, msOrder, d)

\* g.Build(parsedFiles)
Build ==
  /\ pc = "build"
  /\ \E msOrder \in Perms(MsKeys(files)) :
       LET g == BuildGraph(files, disk, msOrder)
       IN  /\ Vertices' = g.Vertices
           /\ Edges' = g.Edges
           /\ adjacency' = g.adjacency
           /\ reverseAdj' = g.reverseAdj
           /\ call' = [op |-> "Build", msOrder |-> msOrder]
  /\ pc' = "built"
  /\ UNCHANGED rankVars
  /\ UNCHANGED outside

\* The parsed files that Build is given: the first n files of FileTable,
\* for n up to NumBuildFiles, in any order (the order in which the parallel
\* parser delivered them), each with its imports or with none, and with a
\* content on disk that cannot be read, is empty, or is its ContentTable
\* entry.
\*   a/x.go  package a, component "svc", imports m/b;      content "Bar FooBar"
\*   b/x.go  package b, component "svc", imports q/x;      content "xFoo Foo;Id Baz"
\*   c/z.go  package c, component "",    imports m/a, q;   content "Foo Bar"
\*   a/y.go  package a, component "svc", imports y;        content "Bar2 Foo"
\* The first two files share the bare name x, which the second imports;
\* the third is a component of its own.  Id is too short to be looked for;
\* FooBar, xFoo and Bar2 are no occurrences of Foo or Bar.
FileTable ==
  << [FilePath |-> <<"a", "/", "x", ".", "g", "o">>, ModuleName |-> <<"a">>, MicroserviceName |-> "svc",
      Imports |-> <<<<"m", "/", "b">>>>,
      Declarations |-> <<[Name |-> <<"F", "o", "o">>, Kind |-> "struct"]>>,
      BigFunctions |-> <<>>],
     [FilePath |-> <<"b", "/", "x", ".", "g", "o">>, ModuleName |-> <<"b">>, MicroserviceName |-> "svc",
      Imports |-> <<<<"q", "/", "x">>>>,
      Declarations |-> <<[Name |-> <<"B", "a", "r">>, Kind |-> "interface"], [Name |-> <<"I", "d">>, Kind |-> "struct"]>>,
      BigFunctions |-> <<>>],
     [FilePath |-> <<"c", "/", "z", ".", "g", "o">>, ModuleName |-> <<"c">>, MicroserviceName |-> "",
      Imports |-> <<<<"m", "/", "a">>, <<"q">>, <<"p", "/", "x">>>>,
      Declarations |-> <<[Name |-> <<"B", "a", "z">>, Kind |-> "message"], [Name |-> <<"A", "p", "i">>, Kind |-> "service"]>>,
      BigFunctions |-> <<>>],
     [FilePath |-> <<"a", "/", "y", ".", "g", "o">>, ModuleName |-> <<"a">>, MicroserviceName |-> "svc",
      Imports |-> <<<<"y">>>>,
      Declarations |-> <<[Name |-> <<"F", "o", "o">>, Kind |-> "struct"], [Name |-> <<"R", "u", "n">>, Kind |-> "func"]>>,
      BigFunctions |-> <<>>] >>

ContentTable ==
  << <<"B", "a", "r", " ", "F", "o", "o", "B", "a", "r">>,
     <<"x", "F", "o", "o", " ", "F", "o", "o", ";", "I", "d", " ", "B", "a", "z">>,
     <<"F", "o", "o", " ", "B", "a", "r">>,
     <<"B", "a", "r", "2", " ", "F", "o", "o">> >>

NumBuildFiles == 3

\* what a read of file k returns under the choice c
DiskEntry(k, c) ==
  IF c = 1 THEN [err |-> TRUE, data |-> <<>>]
  ELSE IF c = 2 THEN [err |-> FALSE, data |-> <<>>]
  ELSE [err |-> FALSE, data |-> ContentTable[k]]

\* the files and the disk of a run: FileTable's first n files in the order
\* `order`, file k with its imports iff imp[k], its read as under c[k]
Feeds(n, order, imp, c) ==
  /\ files = [j \in 1..n |->
               IF imp[order[j]] THEN FileTable[order[j]]
               ELSE [FileTable[order[j]] EXCEPT !.Imports = <<>>]]
  /\ disk = [path \in {FileTable[k].FilePath : k \in 1..n} |->
              LET k == CHOOSE i \in 1..n : FileTable[i].FilePath = path
              IN  DiskEntry(k, c[k])]

InitBuild ==
  /\ New
  /\ pc = "build"
  /\ call = NoCall
  /\ scores = EmptyMap
  /\ iter = 0
  /\ fused = FALSE
  /\ hotspots = <<>>
  /\ gdata = [Nodes |-> <<>>, Links |-> <<>>]
  /\ NoParse
  /\ \E n \in 0..NumBuildFiles :
       \E order \in Perms(1..n), imp \in [1..n -> BOOLEAN], c \in [1..n -> 1..3] :
         Feeds(n, order, imp, c)

NextBuild == Build

SpecBuild == InitBuild /\ [][NextBuild]_vars

(***************************************************************************)
(* buildDeclGraph(ms, scores).  A node id  fp + "::" + name  is the pair   *)
(* <<fp, name>>.  A candidate and a link carry, besides the fields of the  *)
(* code, the signal that produced them (via), which nothing reads but the  *)
(* properties about co-location edges.                                     *)
(***************************************************************************)
typeKinds == {"struct", "interface", "message", "service", "enum"}

NodeID(d) == <<d.fp, d.name>>

\* 1, 2, ..., n
Indices(n) == [k \in 1..n |-> k]

RECURSIVE Concat(_)
\* the sequences of seqs one after the other
Concat(seqs) ==
  IF Len(seqs) = 0 THEN <<>>
  ELSE IF Len(seqs) = 1 THEN seqs[1]
  ELSE LET h == Len(seqs) \div 2
       IN  Concat(SubSeq(seqs, 1, h)) \o Concat(SubSeq(seqs, h + 1, Len(seqs)))

\* the elements of seq that no earlier element of seq equals
Distinct(seq) ==
  LET first == SelectSeq(Indices(Len(seq)), LAMBDA k : \A j \in 1..(k - 1) : seq[j] # seq[k])
  IN  [k \in 1..Len(first) |-> seq[first[k]]]

\* the keys that funcSet holds once the loops over f.Declarations and
\* f.BigFunctions have run for f: every key they look up is in it then
FuncKeys(f) ==
  {<<f.FilePath, f.Declarations[j].Name>> :
     j \in {i \in 1..Len(f.Declarations) : /\ f.Declarations[i].Kind = "func"
                                            /\ Len(f.Declarations[i].Name) >= 3}}
    \cup {<<f.BigFunctions[j].FilePath, f.BigFunctions[j].Name>> : j \in 1..Len(f.BigFunctions)}

\* what the loop over f.Declarations appends to ad, funcSet holding the
\* keys `before` when it starts: a declaration of a type kind with a name
\* of 3 characters or more; a function with such a name whose key is
\* neither in `before` nor that of an earlier function of the file
CollectDecls(f, before) ==
  LET ds   == f.Declarations
      fn   == FileName(f.FilePath)
      kept == SelectSeq(Indices(Len(ds)), LAMBDA j :
                /\ Len(ds[j].Name) >= 3
                /\ \/ ds[j].Kind \in typeKinds
                   \/ /\ ds[j].Kind = "func"
                      /\ <<f.FilePath, ds[j].Name>> \notin before
                      /\ \A i \in 1..(j - 1) : ~(ds[i].Kind = "func" /\ ds[i].Name = ds[j].Name))
  IN  [k \in 1..Len(kept) |->
         [name |-> ds[kept[k]].Name, fp |-> f.FilePath, fn |-> fn, kind |-> ds[kept[k]].Kind]]

\* what the loop over f.BigFunctions appends to ad: a function whose key is
\* neither in `before`, nor that of a function that the loop over
\* f.Declarations added, nor that of an earlier one of f.BigFunctions
CollectBigFunctions(f, before) ==
  LET bfs   == f.BigFunctions
      fn    == FileName(f.FilePath)
      added == {<<f.FilePath, f.Declarations[j].Name>> :
                  j \in {i \in 1..Len(f.Declarations) : /\ f.Declarations[i].Kind = "func"
                                                         /\ Len(f.Declarations[i].Name) >= 3}}
      kept  == SelectSeq(Indices(Len(bfs)), LAMBDA j :
                 /\ <<bfs[j].FilePath, bfs[j].Name>> \notin before \cup added
                 /\ \A i \in 1..(j - 1) :
                      <<bfs[i].FilePath, bfs[i].Name>> # <<bfs[j].FilePath, bfs[j].Name>>)
  IN  [k \in 1..Len(kept) |->
         [name |-> bfs[kept[k]].Name, fp |-> bfs[kept[k]].FilePath, fn |-> fn, kind |-> "func"]]

\* ad before the cap: the loop over ms.Files
AllDecls(fs) ==
  Concat([i \in 1..Len(fs) |->
            LET before == UNION {FuncKeys(fs[h]) : h \in 1..(i - 1)}
            IN  CollectDecls(fs[i], before) \o CollectBigFunctions(fs[i], before)])

Reverse(seq) == [k \in 1..Len(seq) |-> seq[Len(seq) + 1 - k]]

RECURSIVE SortBlocks(_, _)
\* the items (records with a key) by decreasing key, items of one key in
\* their order in the sequence
SortBlocks(items, keys) ==
  IF keys = {} THEN <<>>
  ELSE LET top == CHOOSE k \in keys : \A j \in keys : ~FGreater(j, k)
       IN  SelectSeq(items, LAMBDA x : x.key = top) \o SortBlocks(items, keys \ {top})

StableDesc(items) == SortBlocks(items, {items[k].key : k \in 1..Len(items)})

\* What a sort.Slice by decreasing key leaves.  Up to 12 items it is an
\* insertion sort, which keeps items of one key in their order; above, the
\* order of items of one key is the implementation's: they are left in
\* their order (tie "kept") or in the opposite order (tie "reversed").
Ties == {"kept", "reversed"}
SortSliceDesc(items, tie) ==
  IF Len(items) <= 12 \/ tie = "kept" THEN StableDesc(items)
  ELSE StableDesc(Reverse(items))

\* the first 80 candidates as they were collected
CapNodesUnsorted(ad, sc, tie) == IF Len(ad) > 80 THEN SubSeq(ad, 1, 80) ELSE ad

\* if len(ad) > 80 { sort.Slice(ad, by scores[fp]); ad = ad[:80] }
CapNodes(ad, sc, tie) ==
  IF Len(ad) > 80
    THEN LET items  == [k \in 1..Len(ad) |-> [key |-> Score(sc, ad[k].fp), val |-> ad[k]]]
             sorted == SortSliceDesc(items, tie)
         IN  [k \in 1..80 |-> sorted[k].val]
    ELSE ad

\* 0.001
Milli == FDivInt(FInt(1), 1000)

\* s := scores[d.fp]; if s < 0.001 { s = 0.001 }
NodeScore(sc, fp) == IF FGreater(Milli, Score(sc, fp)) THEN Milli ELSE Score(sc, fp)

\* nodeScores: a node's score is that of its file, 0.001 at least
NodeScores(ad, sc) ==
  LET clamped == [fp \in {ad[k].fp : k \in 1..Len(ad)} |-> NodeScore(sc, fp)]
  IN  [id \in {NodeID(ad[k]) : k \in 1..Len(ad)} |-> clamped[id[1]]]

\* nodes
Nodes(ad, nodeScores, group) ==
  [k \in 1..Len(ad) |->
     [ID |-> NodeID(ad[k]), Label |-> ad[k].name, Sublabel |-> ad[k].fn,
      Kind |-> ad[k].kind, Score |-> nodeScores[NodeID(ad[k])], Group |-> group]]

\* fileContents: the files of ms.Files that os.ReadFile reads
FileContents(fs, d) ==
  [fp \in {fs[k].FilePath : k \in 1..Len(fs)} \cap {x \in DOMAIN d : ~d[x].err} |-> d[fp].data]

\* fileContents[fp]: the empty string for a missing key
ContentOf(fc, fp) == IF fp \in DOMAIN fc THEN fc[fp] ELSE <<>>

\* letters and digits only
isIdentCharNoUnderscore(b) == b \in LowerCase \cup UpperCase \cup Digits

isIdentChar(b) == b \in LowerCase \cup UpperCase \cup Digits \cup {"_"}

RECURSIVE matchGoTypeRefFrom(_, _, _)
\* the loop of matchGoTypeRef from position i (counted from 1)
matchGoTypeRefFrom(source, typeName, i) ==
  IF i + Len(typeName) - 1 > Len(source) THEN FALSE
  ELSE IF SubSeq(source, i, i + Len(typeName) - 1) # typeName
    THEN matchGoTypeRefFrom(source, typeName, i + 1)
  ELSE IF i > 1 /\ isIdentChar(source[i - 1])
    THEN matchGoTypeRefFrom(source, typeName, i + 1)
  ELSE IF i + Len(typeName) <= Len(source) /\ isIdentChar(source[i + Len(typeName)])
    THEN matchGoTypeRefFrom(source, typeName, i + 1)
  ELSE TRUE

matchGoTypeRef(source, typeName) == matchGoTypeRefFrom(source, typeName, 1)

\* the names of more than 4 characters among ad that the text cs holds:
\* the targets for which  len(tgt.name) <= 4  is false and matchGoTypeRef
\* is true
Mentioned(cs, ad) ==
  {n \in {ad[k].name : k \in 1..Len(ad)} : Len(n) > 4 /\ matchGoTypeRef(cs, n)}

\* the candidates for the targets tgts, as the signal via found them:
\* cand{target: tid, tgtScore: nodeScores[tid]}
Found(tgts, sc, via) ==
  [k \in 1..Len(tgts) |->
     [target |-> NodeID(tgts[k]), tgtScore |-> sc[NodeID(tgts[k])], via |-> via]]

\* fileNodes[fp]
FileNodes(ad, fp) == SelectSeq(ad, LAMBDA d : d.fp = fp)

\* What the four strategies look at for the sources of the file fp: its
\* nodes; the declarations of other files that its text names (Strategies
\* 1 and 4 test a target in the same way, but for the kind); the messages
\* and rpcs that its text names.  The text of a file that was not read is
\* empty.
Signals(ad, fc, fp) ==
  LET names == IF fp \in DOMAIN fc THEN Mentioned(fc[fp], ad) ELSE {}
  IN  [nodes  |-> FileNodes(ad, fp),
       read   |-> fp \in DOMAIN fc,
       empty  |-> ContentOf(fc, fp) = <<>>,
       others |-> SelectSeq(ad, LAMBDA t : t.fp # fp /\ t.name \in names),
       schema |-> SelectSeq(ad, LAMBDA t : t.kind \in {"message", "rpc"} /\ t.name \in names)]

\* Strategy 1 for the source sid, sig the signals of its file: the
\* declarations of other files whose names the source's file holds
CrossFile(sig, sc, sid) ==
  IF ~sig.read THEN <<>>
  ELSE Found(SelectSeq(sig.others, LAMBDA t : t.name # sid[2]), sc, "reference")

\* co-location for files of 4 to 20 nodes
CoLocatedFromFour(sig, sc, sid) ==
  IF Len(sig.nodes) < 4 \/ Len(sig.nodes) > 20 THEN <<>>
  ELSE Found(SelectSeq(sig.nodes, LAMBDA t : t.name # sid[2]), sc, "colocation")

\* Strategy 2 for the source sid: the other declarations of its file, when
\* the file has 2 to 20 nodes
CoLocated(sig, sc, sid) ==
  IF Len(sig.nodes) < 2 \/ Len(sig.nodes) > 20 THEN <<>>
  ELSE Found(SelectSeq(sig.nodes, LAMBDA t : t.name # sid[2]), sc, "colocation")

\* the kinds under which the file of sid holds it
KindsOf(sig, sid) ==
  {sig.nodes[k].kind : k \in {j \in 1..Len(sig.nodes) : sig.nodes[j].name = sid[2]}}

\* Strategy 3 for the source sid: from a service to the messages (and rpcs)
\* whose names its file holds
Schema(sig, sc, sid) ==
  IF sig.empty \/ sig.schema = <<>> THEN <<>>
  ELSE IF "service" \notin KindsOf(sig, sid) THEN <<>>
  ELSE Found(sig.schema, sc, "schema")

\* Strategy 4 for the source sid: from a function to the functions of
\* other files whose names its file holds
Calls(sig, sc, sid) ==
  IF sig.empty \/ sig.others = <<>> THEN <<>>
  ELSE IF "func" \notin KindsOf(sig, sid) THEN <<>>
  ELSE Found(SelectSeq(sig.others, LAMBDA t : t.kind = "func" /\ t.name # sid[2]), sc, "call")

\* no seen: every candidate is appended
FirstPerTargetAll(cands) == Indices(Len(cands))

\* seen: a candidate is appended only for a (source, target) key that no
\* earlier candidate has
FirstPerTarget(cands) ==
  SelectSeq(Indices(Len(cands)), LAMBDA k : \A j \in 1..(k - 1) : cands[j].target # cands[k].target)

\* outgoing[sid] once the four strategies have run: each strategy appends
\* to it in the order of its inner loop, the strategies in their order
Outgoing(sig, sc, sid) ==
  LET cands == CrossFile(sig, sc, sid) \o CoLocated(sig, sc, sid)
                 \o Schema(sig, sc, sid) \o Calls(sig, sc, sid)
      first == FirstPerTarget(cands)
  IN  [k \in 1..Len(first) |-> cands[first[k]]]

\* the first 5 candidates of a source in the order they were found
LinksOfUnsorted(sid, cands, nodeSet, tie) ==
  LET limit == IF 5 > Len(cands) THEN Len(cands) ELSE 5
      kept  == SelectSeq(SubSeq(cands, 1, limit), LAMBDA c : c.target \in nodeSet)
  IN  [k \in 1..Len(kept) |-> [Source |-> sid, Target |-> kept[k].target, via |-> kept[k].via]]

\* the links of one source: its candidates by decreasing target score, the
\* first maxOutPerNode = 5 of them, those whose target is a node
LinksOf(sid, cands, nodeSet, tie) ==
  LET items  == [k \in 1..Len(cands) |-> [key |-> cands[k].tgtScore, val |-> cands[k]]]
      sorted == SortSliceDesc(items, tie)
      limit  == IF 5 > Len(cands) THEN Len(cands) ELSE 5
      kept   == SelectSeq(SubSeq(sorted, 1, limit), LAMBDA c : c.val.target \in nodeSet)
  IN  [k \in 1..Len(kept) |->
         [Source |-> sid, Target |-> kept[k].val.target, via |-> kept[k].val.via]]

\* seq from its element after the first `start` ones, wrapped around
Rotate(seq, start) ==
  IF seq = <<>> THEN seq
  ELSE [k \in 1..Len(seq) |-> seq[((k - 1 + start) % Len(seq)) + 1]]

\* no global cap
CapLinksNever(links, n) == links

\* maxEdges := len(nodes) * 3, at least 10; links[:maxEdges]
CapLinks(links, n) ==
  LET maxEdges == IF n * 3 < 10 THEN 10 ELSE n * 3
  IN  IF Len(links) > maxEdges THEN SubSeq(links, 1, maxEdges) ELSE links

\* links before the global cap: the links of the sources that have
\* candidates, in the order of the range over the map outgoing, which
\* starts after `start` keys of the order in which the sources stand in ad
DeclLinks(ad, ns, fc, tie, start) ==
  LET nodeSet == {NodeID(ad[k]) : k \in 1..Len(ad)}
      sig     == [fp \in {ad[k].fp : k \in 1..Len(ad)} |-> Signals(ad, fc, fp)]
      ids     == Distinct([k \in 1..Len(ad) |-> NodeID(ad[k])])
      out     == [k \in 1..Len(ids) |-> Outgoing(sig[ids[k][1]], ns, ids[k])]
      keys    == SelectSeq(Indices(Len(ids)), LAMBDA k : out[k] # <<>> /\ ids[k] \in nodeSet)
      order   == Rotate(keys, start)
  IN  Concat([k \in 1..Len(order) |->
                LinksOf(ids[order[k]], out[order[k]], nodeSet, tie)])

\* buildDeclGraph(ms, scores) for ms.Files = fs, ms.Name = group, the
\* files' contents d; the sorts leave ties as `tie` says
buildDeclGraph(fs, group, sc, d, tie, start) ==
  LET ad    == CapNodes(AllDecls(fs), sc, tie)
      ns    == NodeScores(ad, sc)
      nodes == Nodes(ad, ns, group)
      links == DeclLinks(ad, ns, FileContents(fs, d), tie, start)
  IN  [Nodes |-> nodes, Links |-> CapLinks(links, Len(nodes))]

\* Generate's key of a file's microservice
ReportKey(f) == IF f.MicroserviceName = "" THEN "root" ELSE f.MicroserviceName

\* msFiles[ms]
MsFiles(fs, ms) == SelectSeq(fs, LAMBDA f : ReportKey(f) = ms)

\* the most keys that the range over outgoing starts after
MaxStart == 1

\* the step of Generate that builds the declaration graph of one
\* microservice from the scores of the graph
BuildDeclGraph ==
  /\ pc = "scored"
  /\ \E ms \in {ReportKey(files[k]) : k \in 1..Len(files)}, tie \in Ties, start \in 0..MaxStart :
       /\ gdata' = buildDeclGraph(MsFiles(files, ms), ms, PageRankScores, disk, tie, start)
       /\ call' = [op |-> "buildDeclGraph", ms |-> ms, tie |-> tie, start |-> start]
  /\ pc' = "graphed"
  /\ UNCHANGED <<graphVars, rankVars, feedVars, parseVars>>

DigitTable == <<"0", "1", "2", "3", "4", "5", "6", "7", "8", "9">>

\* n struct declarations TyP01, TyP02, ... of a file whose letter is p
Structs(p, n) ==
  [k \in 1..n |-> [Name |-> <<"T", "y", p, DigitTable[(k \div 10) + 1], DigitTable[(k % 10) + 1]>>,
                   Kind |-> "struct"]]

\* the files of the runs of buildDeclGraph: Go files of 1, 3, 5, 21, 60 and
\* 2 declarations, a proto file of 3 declarations, a Go file with functions of 50 lines
\* and more, with names under 3 characters and with a function declared
\* twice (a method of two types), and a proto file whose service has the
\* name of a message nested in another message
DeclTable ==
  << [FilePath |-> <<"s", "/", "o", "n", "e", ".", "g", "o">>, MicroserviceName |-> "svc",
      Declarations |-> Structs("A", 1), BigFunctions |-> <<>>],
     [FilePath |-> <<"s", "/", "t", "h", "r", "e", "e", ".", "g", "o">>, MicroserviceName |-> "svc",
      Declarations |-> Structs("C", 3), BigFunctions |-> <<>>],
     [FilePath |-> <<"s", "/", "f", "i", "v", "e", ".", "g", "o">>, MicroserviceName |-> "svc",
      Declarations |-> Structs("E", 4) \o <<[Name |-> <<"R", "u", "n", "I", "t">>, Kind |-> "func"]>>,
      BigFunctions |-> <<>>],
     [FilePath |-> <<"s", "/", "b", "i", "g", ".", "g", "o">>, MicroserviceName |-> "svc",
      Declarations |-> Structs("B", 21), BigFunctions |-> <<>>],
     [FilePath |-> <<"s", "/", "h", "u", "g", "e", ".", "g", "o">>, MicroserviceName |-> "svc",
      Declarations |-> Structs("H", 60), BigFunctions |-> <<>>],
     [FilePath |-> <<"p", "/", "a", "p", "i", ".", "p", "r", "o", "t", "o">>, MicroserviceName |-> "",
      Declarations |-> <<[Name |-> <<"O", "r", "d", "e", "r", "s">>, Kind |-> "service"],
                         [Name |-> <<"O", "r", "d", "e", "r">>, Kind |-> "message"],
                         [Name |-> <<"G", "e", "t", "O", "r", "d", "e", "r">>, Kind |-> "rpc"]>>,
      BigFunctions |-> <<>>],
     [FilePath |-> <<"s", "/", "m", "i", "x", ".", "g", "o">>, MicroserviceName |-> "svc",
      Declarations |-> <<[Name |-> <<"I", "d">>, Kind |-> "struct"],
                         [Name |-> <<"F", "e", "t", "c", "h">>, Kind |-> "func"],
                         [Name |-> <<"F", "e", "t", "c", "h">>, Kind |-> "func"],
                         [Name |-> <<"D", "o">>, Kind |-> "func"],
                         [Name |-> <<"L", "i", "m", "i", "t">>, Kind |-> "const"]>>,
      BigFunctions |-> <<[Name |-> <<"F", "e", "t", "c", "h">>, FilePath |-> <<"s", "/", "m", "i", "x", ".", "g", "o">>],
                         [Name |-> <<"D", "o">>, FilePath |-> <<"s", "/", "m", "i", "x", ".", "g", "o">>]>>],
     [FilePath |-> <<"p", "/", "s", "h", "o", "p", ".", "p", "r", "o", "t", "o">>, MicroserviceName |-> "",
      Declarations |-> <<[Name |-> <<"B", "a", "s", "k", "e", "t">>, Kind |-> "message"],
                         [Name |-> <<"O", "r", "d", "e", "r", "s">>, Kind |-> "message"],
                         [Name |-> <<"O", "r", "d", "e", "r", "s">>, Kind |-> "service"],
                         [Name |-> <<"P", "l", "a", "c", "e">>, Kind |-> "rpc"]>>,
      BigFunctions |-> <<>>],
     [FilePath |-> <<"s", "/", "t", "w", "o", ".", "g", "o">>, MicroserviceName |-> "svc",
      Declarations |-> Structs("W", 2), BigFunctions |-> <<>>] >>

\* what the files hold, when they can be read
DeclContentTable ==
  << <<"T", "y", "C", "0", "1", ";", "T", "y", "E", "0", "2", " ", "F", "e", "t", "c", "h", "(", ")">>,
     <<"x", "T", "y", "E", "0", "1", " ", "T", "y", "E", "0", "1", "1", " ", "T", "y", "A", "0", "1">>,
     <<"T", "y", "C", "0", "2", " ", "T", "y", "C", "0", "3", " ", "F", "e", "t", "c", "h", "(", "1", ")">>,
     <<"T", "y", "H", "0", "1">>,
     <<"T", "y", "B", "0", "1", "_">>,
     <<"G", "e", "t", "O", "r", "d", "e", "r", "(", "O", "r", "d", "e", "r", ")">>,
     <<"R", "u", "n", "I", "t", "(", ")", " ", "T", "y", "A", "0", "1", " ", "O", "r", "d", "e", "r", "s">>,
     <<"B", "a", "s", "k", "e", "t", "{", "O", "r", "d", "e", "r", "s", "}", " ", "O", "r", "d", "e", "r", "s", "{", "P", "l", "a", "c", "e", "(", "B", "a", "s", "k", "e", "t", ")", "}">>,
     <<"T", "y", "W", "0", "1">> >>

NumShapes == 8

\* the scores a file can have in the runs of buildDeclGraph: 1/2048 (under
\* 0.001), 1/8 and 1/4
DeclScores == <<FDivInt(FInt(1), 2048), FDivInt(FInt(1), 8), FDivInt(FInt(1), 4)>>
NumDeclScores == 2

\* the lists of one file and of two files of DeclTable
DeclLists ==
  {<<k>> : k \in 1..NumShapes}
    \cup ({<<j, k>> : j, k \in 1..NumShapes} \ {<<k, k>> : k \in 1..NumShapes})

\* the state in which Generate reaches its loop over the microservices:
\* the files parsed, a vertex and a score for each of them
InitDecl ==
  /\ NoParse
  /\ pc = "scored"
  /\ call = NoCall
  /\ iter = Iterations
  /\ fused = FALSE
  /\ hotspots = <<>>
  /\ gdata = [Nodes |-> <<>>, Links |-> <<>>]
  /\ Edges = <<>>
  /\ \E list \in DeclLists :
       \E read \in [1..Len(list) -> BOOLEAN], sc \in [1..Len(list) -> 1..NumDeclScores] :
         LET paths   == {DeclTable[list[j]].FilePath : j \in 1..Len(list)}
             at(path) == CHOOSE i \in 1..Len(list) : DeclTable[list[i]].FilePath = path
         IN  /\ files = [j \in 1..Len(list) |-> DeclTable[list[j]]]
             /\ disk = [path \in paths |->
                         IF read[at(path)]
                           THEN [err |-> FALSE, data |-> DeclContentTable[list[at(path)]]]
                           ELSE [err |-> TRUE, data |-> <<>>]]
             /\ Vertices = paths
             /\ adjacency = [path \in paths |-> {}]
             /\ reverseAdj = [path \in paths |-> {}]
             /\ PageRankScores = [path \in paths |-> DeclScores[sc[at(path)]]]
             /\ scores = PageRankScores

NextDecl == BuildDeclGraph

SpecDecl == InitDecl /\ [][NextDecl]_vars

(***************************************************************************)
(* runAnalyze from its graph phase on: g := graph.New(); g.Build(files);   *)
(* g.Analyze(); g.GetTopHotspots(5); report.Generate, which calls          *)
(* g.GetTopHotspots(30) and buildDeclGraph(ms, g.PageRankScores).          *)
(***************************************************************************)
NumRunFiles == 2

InitRun ==
  /\ New
  /\ NoParse
  /\ pc = "build"
  /\ call = NoCall
  /\ scores = EmptyMap
  /\ iter = 0
  /\ fused \in BOOLEAN
  /\ hotspots = <<>>
  /\ gdata = [Nodes |-> <<>>, Links |-> <<>>]
  /\ \E n \in 0..NumRunFiles :
       \E order \in Perms(1..n), c \in [1..n -> 1..3] :
         Feeds(n, order, [k \in 1..n |-> TRUE], c)

NextRun ==
  \/ Build
  \/ Analyze
  \/ Iterate
  \/ Finish
  \/ GetTopHotspots(MainLimit)
  \/ GetTopHotspots(ReportLimit)
  \/ BuildDeclGraph

SpecRun == InitRun /\ [][NextRun]_vars

(***************************************************************************)
(* The two matchers on one text and one name: the text is the content of   *)
(* a file, the name that of a declaration, as buildTypeRefEdges and        *)
(* buildDeclGraph hand them to containsTypeName and to matchGoTypeRef.     *)
(***************************************************************************)
MatchChars == <<"a", "_", " ", ".", "B">>
NumMatchChars == 3
MaxContentLen == 5
MaxNameLen == 2

\* the sequences over S of lengths lo to hi
SeqsOf(S, lo, hi) == UNION {[1..k -> S] : k \in lo..hi}

MatchContents == SeqsOf({MatchChars[k] : k \in 1..NumMatchChars}, 0, MaxContentLen)

\* names as the parsers' \w+ gives them: not empty, of identifier characters
MatchNames ==
  SeqsOf({MatchChars[k] : k \in {j \in 1..NumMatchChars : isWordChar(MatchChars[j])}},
         1, MaxNameLen)

MatchPath == <<"m", ".", "g", "o">>

InitMatch ==
  /\ New
  /\ NoParse
  /\ pc = "match"
  /\ call = NoCall
  /\ scores = EmptyMap
  /\ iter = 0
  /\ fused = FALSE
  /\ hotspots = <<>>
  /\ gdata = [Nodes |-> <<>>, Links |-> <<>>]
  /\ \E content \in MatchContents, typeName \in MatchNames :
       /\ files = <<[FilePath |-> MatchPath, ModuleName |-> <<"m">>, MicroserviceName |-> "",
                     Imports |-> <<>>,
                     Declarations |-> <<[Name |-> typeName, Kind |-> "struct"]>>,
                     BigFunctions |-> <<>>]>>
       /\ disk = [path \in {MatchPath} |-> [err |-> FALSE, data |-> content]]

\* containsTypeName(content, d.name) and matchGoTypeRef(cs, tgt.name) for
\* the text and the name
Match ==
  /\ pc = "match"
  /\ pc' = "matched"
  /\ call' = [op |-> "match",
              file |-> containsTypeName(readFileContent(disk, MatchPath).content,
                                        files[1].Declarations[1].Name),
              decl |-> matchGoTypeRef(ContentOf(FileContents(files, disk), MatchPath),
                                      files[1].Declarations[1].Name)]
  /\ UNCHANGED <<graphVars, rankVars, outside>>

NextMatch == Match

SpecMatch == InitMatch /\ [][NextMatch]_vars

(***************************************************************************)
(* parseParallel: the caller starts the workers, feeds the jobs channel,   *)
(* closes it, starts the goroutine that waits for the workers and closes   *)
(* the results channel, and collects the results until that channel is     *)
(* closed and drained.  Every step of every goroutine is one action, so    *)
(* the specification has all their interleavings.                          *)
(***************************************************************************)
\* scanResult.Files is the first n paths of ScanTable, for n up to
\* NumScanFiles; numWorkers is any number from 1 to MaxWorkers.
ScanTable == <<"a.go", "b.go", "c.proto", "d.txt">>
NumScanFiles == 3
MaxWorkers == 2

\* the workers' ids
Workers == DOMAIN worker

InitParse ==
  /\ New
  /\ pc = "parse"
  /\ call = NoCall
  /\ scores = EmptyMap
  /\ iter = 0
  /\ fused = FALSE
  /\ hotspots = <<>>
  /\ NoFiles
  /\ \E n \in 0..NumScanFiles :
       \E ok \in SUBSET {ScanTable[k] : k \in 1..n} :
         scan = [Files |-> [k \in 1..n |-> ScanTable[k]], yields |-> ok]
  /\ jobs = [buf |-> <<>>, closed |-> FALSE]
  /\ results = [buf |-> <<>>, closed |-> FALSE]
  /\ wg = 0
  /\ \E numWorkers \in 1..MaxWorkers :
       worker = [w \in 1..numWorkers |-> [pc |-> "unstarted", filePath |-> ""]]
  /\ ppc = [main |-> "spawn", closer |-> "none", w |-> 0, next |-> 1]
  /\ parsed = <<>>

\* the capacity of both channels: len(scanResult.Files)
Capacity == Len(scan.Files)

\* wg.Add(1); go func() {...}()
Spawn ==
  /\ ppc.main = "spawn"
  /\ wg' = wg + 1
  /\ worker' = [worker EXCEPT ![ppc.w + 1].pc = "recv"]
  /\ ppc' = [ppc EXCEPT !.w = @ + 1,
                        !.main = IF ppc.w + 1 = Cardinality(Workers) THEN "feed" ELSE "spawn"]
  /\ UNCHANGED <<scan, jobs, results, parsed>>
  /\ UNCHANGED <<graphVars, rankVars, feedVars, gdata, pc, call>>

\* jobs <- f, for the next file of scanResult.Files
Feed ==
  /\ ppc.main = "feed"
  /\ ppc.next <= Len(scan.Files)
  /\ Len(jobs.buf) < Capacity
  /\ jobs' = [jobs EXCEPT !.buf = Append(@, scan.Files[ppc.next])]
  /\ ppc' = [ppc EXCEPT !.next = @ + 1]
  /\ UNCHANGED <<scan, results, wg, worker, parsed>>
  /\ UNCHANGED <<graphVars, rankVars, feedVars, gdata, pc, call>>

\* the feeding loop ends and jobs is left open
CloseJobsForgotten ==
  /\ ppc.main = "feed"
  /\ ppc.next > Len(scan.Files)
  /\ ppc' = [ppc EXCEPT !.main = "go"]
  /\ UNCHANGED <<scan, jobs, results, wg, worker, parsed>>
  /\ UNCHANGED <<graphVars, rankVars, feedVars, gdata, pc, call>>

\* close(jobs)
CloseJobs ==
  /\ ppc.main = "feed"
  /\ ppc.next > Len(scan.Files)
  /\ jobs' = [jobs EXCEPT !.closed = TRUE]
  /\ ppc' = [ppc EXCEPT !.main = "go"]
  /\ UNCHANGED <<scan, results, wg, worker, parsed>>
  /\ UNCHANGED <<graphVars, rankVars, feedVars, gdata, pc, call>>

\* go func() { wg.Wait(); close(results) }()
StartCloser ==
  /\ ppc.main = "go"
  /\ ppc' = [ppc EXCEPT !.main = "collect", !.closer = "wait"]
  /\ UNCHANGED <<scan, jobs, results, wg, worker, parsed>>
  /\ UNCHANGED <<graphVars, rankVars, feedVars, gdata, pc, call>>

\* a Wait that returns whatever the counter is
WaitReturnsAtOnce == TRUE

\* wg.Wait() returns once the counter is zero
WaitReturns == wg = 0

CloserWait ==
  /\ ppc.closer = "wait"
  /\ WaitReturns
  /\ ppc' = [ppc EXCEPT !.closer = "close"]
  /\ UNCHANGED <<scan, jobs, results, wg, worker, parsed>>
  /\ UNCHANGED <<graphVars, rankVars, feedVars, gdata, pc, call>>

\* close(results)
CloseResults ==
  /\ ppc.closer = "close"
  /\ results' = [results EXCEPT !.closed = TRUE]
  /\ ppc' = [ppc EXCEPT !.closer = "done"]
  /\ UNCHANGED <<scan, jobs, wg, worker, parsed>>
  /\ UNCHANGED <<graphVars, rankVars, feedVars, gdata, pc, call>>

\* for pf := range results { parsed = append(parsed, pf) }
Collect ==
  /\ ppc.main = "collect"
  /\ results.buf # <<>>
  /\ parsed' = Append(parsed, Head(results.buf))
  /\ results' = [results EXCEPT !.buf = Tail(@)]
  /\ UNCHANGED <<scan, jobs, wg, worker, ppc>>
  /\ UNCHANGED <<graphVars, rankVars, feedVars, gdata, pc, call>>

\* the range over results ends: return parsed
Return ==
  /\ ppc.main = "collect"
  /\ results.buf = <<>>
  /\ results.closed
  /\ ppc' = [ppc EXCEPT !.main = "returned"]
  /\ UNCHANGED <<scan, jobs, results, wg, worker, parsed>>
  /\ UNCHANGED <<graphVars, rankVars, feedVars, gdata, pc, call>>

\* a worker's  for filePath := range jobs: the next job, or the end of
\* the loop once jobs is closed and drained
Receive(w) ==
  /\ worker[w].pc = "recv"
  /\ \/ /\ jobs.buf # <<>>
        /\ worker' = [worker EXCEPT ![w] = [pc |-> "parse", filePath |-> Head(jobs.buf)]]
        /\ jobs' = [jobs EXCEPT !.buf = Tail(@)]
     \/ /\ jobs.buf = <<>>
        /\ jobs.closed
        /\ worker' = [worker EXCEPT ![w].pc = "exit"]
        /\ UNCHANGED jobs
  /\ UNCHANGED <<scan, results, wg, ppc, parsed>>
  /\ UNCHANGED <<graphVars, rankVars, feedVars, gdata, pc, call>>

\* pf, err := parser.ParseFile(filePath, ms): pf is nil or a record
Parse(w) ==
  /\ worker[w].pc = "parse"
  /\ worker' = [worker EXCEPT ![w].pc =
                  IF worker[w].filePath \in scan.yields THEN "send" ELSE "recv"]
  /\ UNCHANGED <<scan, jobs, results, wg, ppc, parsed>>
  /\ UNCHANGED <<graphVars, rankVars, feedVars, gdata, pc, call>>

\* results <- pf: a send on a closed channel panics
Send(w) ==
  /\ worker[w].pc = "send"
  /\ IF results.closed
       THEN /\ worker' = [worker EXCEPT ![w].pc = "panic"]
            /\ UNCHANGED results
       ELSE /\ Len(results.buf) < Capacity
            /\ results' = [results EXCEPT !.buf = Append(@, [FilePath |-> worker[w].filePath])]
            /\ worker' = [worker EXCEPT ![w].pc = "recv"]
  /\ UNCHANGED <<scan, jobs, wg, ppc, parsed>>
  /\ UNCHANGED <<graphVars, rankVars, feedVars, gdata, pc, call>>

\* defer wg.Done()
Done(w) ==
  /\ worker[w].pc = "exit"
  /\ wg' = wg - 1
  /\ worker' = [worker EXCEPT ![w].pc = "done"]
  /\ UNCHANGED <<scan, jobs, results, ppc, parsed>>
  /\ UNCHANGED <<graphVars, rankVars, feedVars, gdata, pc, call>>

NextParse ==
  \/ Spawn
  \/ Feed
  \/ CloseJobs
  \/ StartCloser
  \/ CloserWait
  \/ CloseResults
  \/ Collect
  \/ Return
  \/ \E w \in Workers : Receive(w)
  \/ \E w \in Workers : Parse(w)
  \/ \E w \in Workers : Send(w)
  \/ \E w \in Workers : Done(w)

SpecParse == InitParse /\ [][NextParse]_vars

\* the steps of the calling goroutine, of the goroutine that closes
\* results, and of worker w
MainStep == Spawn \/ Feed \/ CloseJobs \/ StartCloser \/ Collect \/ Return
CloserStep == CloserWait \/ CloseResults
WorkerStep(w) == w \in Workers /\ (Receive(w) \/ Parse(w) \/ Send(w) \/ Done(w))

\* the Go scheduler runs every goroutine that stays runnable
SpecParseFair ==
  /\ SpecParse
  /\ WF_vars(MainStep)
  /\ WF_vars(CloserStep)
  /\ \A w \in 1..MaxWorkers : WF_vars(WorkerStep(w))

(***************************************************************************)
(* The graph container (specification Spec).                               *)
(***************************************************************************)
InEdges(source, target) == \E k \in 1..Len(Edges) : Edges[k] = <<source, target>>

\* C1: after any sequence of AddVertex and AddEdge calls the edge list
\* contains no edge whose source equals its target.
C1_NoSelfLoop == \A k \in 1..Len(Edges) : Edges[k][1] # Edges[k][2]

\* a self-loop was asked for on a registered vertex of a graph with edges
C1_Witness ==
  /\ call.op = "AddEdge"
  /\ call.source = call.target
  /\ call.source \in Vertices
  /\ Edges # <<>>

\* C2: the edge list never holds the same ordered pair twice, so a repeated
\* AddEdge(s, t) leaves exactly one (s, t) entry.
C2_NoDuplicateEdge ==
  \A j, k \in 1..Len(Edges) : Edges[j] = Edges[k] => j = k

\* AddEdge was called again with the pair of the first edge, after another
\* edge had been added
C2_Witness ==
  /\ call.op = "AddEdge"
  /\ Len(Edges) >= 2
  /\ Edges[1] = <<call.source, call.target>>

\* C3: an AddEdge naming an unregistered vertex leaves the edge list as it
\* is, and every edge in the list has both endpoints in the vertex set, in
\* every reachable state (so also once the missing vertex is registered).
C3_EndpointsRegistered ==
  \A k \in 1..Len(Edges) : Edges[k][1] \in Vertices /\ Edges[k][2] \in Vertices

C3_UnregisteredRejected ==
  /\ []C3_EndpointsRegistered
  /\ [][(/\ call'.op = "AddEdge"
         /\ (call'.source \notin Vertices \/ call'.target \notin Vertices))
          => Edges' = Edges]_vars

\* an edge to an unregistered vertex was asked for from a registered one
C3_Witness ==
  /\ call.op = "AddEdge"
  /\ call.source \in Vertices
  /\ call.target \notin Vertices
  /\ call.source # call.target

\* the cases in which the claim has AddEdge rejected, read off the vertex
\* set and the edge list
C4_ShouldReject(source, target) ==
  \/ source = target
  \/ source \notin Vertices
  \/ target \notin Vertices
  \/ InEdges(source, target)

\* C4: a rejected AddEdge (source equals target, an endpoint is not a known
\* vertex, or the pair already exists) leaves the vertex set, the edge
\* list and both adjacency indices unchanged.
C4_RejectedAddEdgeMutatesNothing ==
  [][(call'.op = "AddEdge" /\ C4_ShouldReject(call'.source, call'.target))
       => UNCHANGED graphVars]_vars

\* an existing pair was asked for again and the call was rejected
C4_Witness ==
  /\ call.op = "AddEdge"
  /\ call.rejected
  /\ call.source # call.target
  /\ InEdges(call.source, call.target)

\* C14: AddVertex(v) on a registered vertex, whatever edges touch v, leaves
\* the vertex set, the edge list, OutDegree(v), InDegree(v) and both
\* adjacency sets of v unchanged.
C14_AddVertexIdempotent ==
  [][(call'.op = "AddVertex" /\ call'.v \in Vertices) =>
       /\ Vertices' = Vertices
       /\ Edges' = Edges
       /\ Cardinality(Get(adjacency', call'.v)) = OutDegree(call'.v)
       /\ Cardinality(Get(reverseAdj', call'.v)) = InDegree(call'.v)
       /\ Get(adjacency', call'.v) = Get(adjacency, call'.v)
       /\ Get(reverseAdj', call'.v) = Get(reverseAdj, call'.v)]_vars

\* AddVertex was called again on a vertex with an outgoing and an incoming
\* edge
C14_Witness ==
  /\ call.op = "AddVertex"
  /\ ~call.fresh
  /\ OutDegree(call.v) >= 1
  /\ InDegree(call.v) >= 1

(***************************************************************************)
(* Scoring and hotspot extraction (specification SpecRank).                *)
(***************************************************************************)
Isolated(v) == Get(adjacency, v) = {} /\ Get(reverseAdj, v) = {}

\* C5: every score is non-negative, after every iteration and in the
\* final result.
C5_ScoresNonNegative ==
  /\ \A v \in DOMAIN scores : ~FIsNeg(scores[v])
  /\ \A v \in DOMAIN PageRankScores : ~FIsNeg(PageRankScores[v])

\* the final result of a graph with an edge
C5_Witness ==
  /\ pc = "scored"
  /\ Edges # <<>>
  /\ DOMAIN PageRankScores = Vertices

ThreeCycle ==
  /\ Vertices = {"A", "B", "C"}
  /\ adjacency = [v \in Vertices |->
                    IF v = "A" THEN {"B"} ELSE IF v = "B" THEN {"C"} ELSE {"A"}]

\* C6: for the 3-cycle A->B, B->C, C->A the three scores are equal after
\* each iteration, and so in the result of the 100 iterations with damping
\* 0.85.
C6_ThreeCycleEqual ==
  /\ (ThreeCycle /\ pc = "rank") =>
       /\ FEq(scores["A"], scores["B"])
       /\ FEq(scores["B"], scores["C"])
  /\ (ThreeCycle /\ pc = "scored") =>
       /\ iter = Iterations
       /\ FEq(PageRankScores["A"], PageRankScores["B"])
       /\ FEq(PageRankScores["B"], PageRankScores["C"])

C6_Witness ==
  /\ ThreeCycle
  /\ pc = "scored"
  /\ iter = Iterations
  /\ DOMAIN PageRankScores = Vertices

\* the float64 nearest to 0.0375
Literal0375 == FDivInt(FInt(375), 10000)

\* the float64 that (1.0 - 0.85) / 4 evaluates to
Computed0375 == FDivInt(FSub(FInt(1), FDivInt(FInt(85), 100)), 4)

\* the isolated vertices of a 4-vertex graph whose scores an iteration
\* has written
IsolatedOfFour ==
  {v \in Vertices : /\ Cardinality(Vertices) = 4
                    /\ Isolated(v)
                    /\ iter >= 1
                    /\ pc \in {"rank", "scored"}}

\* C7 as stated: the score of an isolated vertex among 4 vertices equals
\* exactly 0.0375 after any number of iterations.
C7_IsolatedIsExactly0375 ==
  \A v \in IsolatedOfFour : FEq(scores[v], Literal0375)

\* C7 amended: after one or more iterations the score of an isolated
\* vertex among 4 vertices is the float64 value of (1.0 - 0.85) / 4, which
\* is not the float64 nearest to 0.0375, whatever the other edges are.
C7_IsolatedIsBaseMass ==
  /\ \A v \in IsolatedOfFour : FEq(scores[v], Computed0375)
  /\ ~FEq(Computed0375, Literal0375)

\* D is isolated in a 4-vertex graph whose other vertices have edges, and
\* the 100 iterations are done
C7_Witness ==
  /\ "D" \in IsolatedOfFour
  /\ Len(Edges) >= 3
  /\ pc = "scored"
  /\ FEq(PageRankScores["D"], Computed0375)

\* the vertices with an edge into v, and the number of edges out of u, read
\* off the edge list
InNeighbors(v) == {u \in Vertices : InEdges(u, v)}
EdgeOutDegree(u) == Cardinality({k \in 1..Len(Edges) : Edges[k][1] = u})

\* the damping factor d = 0.85 as a float64
C19_d == FDivInt(FInt(85), 100)

\* x + d*old[u1]/OutDegree(u1) + d*old[u2]/OutDegree(u2) + ..., in float64,
\* its terms added from left to right in the given order
RECURSIVE C19_Sum(_, _, _)
C19_Sum(x, old, order) ==
  IF order = <<>> THEN x
  ELSE LET u     == Head(order)
           share == FDivInt(old[u], EdgeOutDegree(u))
           y     == IF fused THEN FMA(C19_d, share, x)
                    ELSE FAdd(x, FMul(C19_d, share))
       IN  C19_Sum(y, old, Tail(order))

\* C19: an iteration replaces the score map by one whose keys are the
\* vertices and in which new[v] = (1-d)/N + d * sum over the edges u->v of
\* old[u]/OutDegree(u), computed from the scores of the previous iteration
\* alone (the terms of the float64 sum in some order); a vertex without
\* outgoing edges is a term of no sum.
C19_IterationFormula ==
  [][(pc = "rank" /\ iter' = iter + 1) =>
       /\ DOMAIN scores' = Vertices
       /\ LET base == FDivInt(FSub(FInt(1), C19_d), Cardinality(Vertices))
          IN  \A v \in Vertices :
                \E order \in Perms(InNeighbors(v)) :
                  FEq(scores'[v], C19_Sum(base, scores, order))]_vars

\* two iterations are done on a graph in which a vertex has two
\* in-neighbours and another vertex has no outgoing edge
C19_Witness ==
  /\ pc = "rank"
  /\ iter >= 2
  /\ \E v \in Vertices : Cardinality(InNeighbors(v)) >= 2
  /\ \E u \in Vertices : EdgeOutDegree(u) = 0

\* the exact (unrounded) sum of the scores of a map
RECURSIVE XSum(_, _)
XSum(m, S) ==
  IF S = {} THEN FZero
  ELSE LET v == CHOOSE x \in S : TRUE IN XAdd(m[v], XSum(m, S \ {v}))

\* the exact sum of the scores minus 1
Excess(m) == XAdd(XSum(m, DOMAIN m), FNeg(FInt(1)))

TotalAbove1(m) == Excess(m).m # <<>> /\ Excess(m).s = 0
TotalBelow1(m) == Excess(m).m # <<>> /\ Excess(m).s = 1
TotalIs1(m)    == Excess(m).m = <<>>

Dangling == \E v \in Vertices : EdgeOutDegree(v) = 0

\* the rounding error allowed to a total: 2^-48
Tolerance == FRound([s |-> 0, m |-> BFromInt(1), e |-> -48])

TotalNear1(m) == ~FMagGreater(FRound(Excess(m)), Tolerance)

\* the score maps that hold the outcome of one or more iterations
Iterated ==
  {m \in {scores, PageRankScores} :
     /\ DOMAIN m = Vertices
     /\ Vertices # {}
     /\ iter >= 1
     /\ pc \in {"rank", "scored"}}

Returned == call.op = "GetTopHotspots" /\ pc # "panic"

\* C8 as stated: GetTopHotspots(limit) never fails, returns at most limit
\* entries for any limit, and returns an empty list for limit 0.
C8_TopKNeverFails ==
  call.op = "GetTopHotspots" =>
    /\ pc # "panic"
    /\ Len(hotspots) <= call.limit
    /\ (call.limit = 0 => hotspots = <<>>)

\* C9: the returned list is sorted by non-increasing score.
C9_SortedNonIncreasing ==
  Returned =>
    \A k \in 1..(Len(hotspots) - 1) :
      ~FGreater(hotspots[k + 1].Score, hotspots[k].Score)

\* three or more entries were returned, not all of one score
C9_Witness ==
  /\ Returned
  /\ Len(hotspots) >= 3
  /\ FGreater(hotspots[1].Score, hotspots[Len(hotspots)].Score)

MinInt(x, y) == IF x < y THEN x ELSE y

ReturnedPaths == {hotspots[k].Path : k \in 1..Len(hotspots)}

\* C10: the returned list holds min(limit, N) distinct vertices, each with
\* its own score from the score map, and no vertex left out has a strictly
\* higher score than a returned one.
C10_TopPrefix ==
  Returned =>
    /\ Len(hotspots) = MinInt(call.limit, Cardinality(Vertices))
    /\ Cardinality(ReturnedPaths) = Len(hotspots)
    /\ ReturnedPaths \subseteq Vertices
    /\ \A k \in 1..Len(hotspots) :
         hotspots[k].Score = PageRankScores[hotspots[k].Path]
    /\ \A v \in Vertices \ ReturnedPaths :
         \A k \in 1..Len(hotspots) :
           ~FGreater(PageRankScores[v], hotspots[k].Score)

\* the limit cut the list, and a vertex left out scores strictly lower
\* than a returned one
C10_Witness ==
  /\ Returned
  /\ call.limit >= 1
  /\ call.limit < Cardinality(Vertices)
  /\ \E v \in Vertices \ ReturnedPaths :
       FGreater(hotspots[1].Score, PageRankScores[v])

(***************************************************************************)
(* parseParallel (specification SpecParse).                                *)
(***************************************************************************)
\* the scanned files whose parse yields a record
Yielding == {k \in 1..Len(scan.Files) : scan.Files[k] \in scan.yields}

\* C16: under every interleaving of the workers, parseParallel returns
\* only after every worker has finished, no send fails, and the returned
\* list holds exactly one record for each scanned file whose parse yields
\* a record.
C16_BarrierAndExactlyOnce ==
  /\ \A w \in Workers : worker[w].pc # "panic"
  /\ ppc.main = "returned" =>
       /\ \A w \in Workers : worker[w].pc = "done"
       /\ Len(parsed) = Cardinality(Yielding)
       /\ \A k \in Yielding :
            Cardinality({j \in 1..Len(parsed) : parsed[j].FilePath = scan.Files[k]}) = 1

\* with two workers and three scanned files, one of which yields no
\* record, the list was returned with the last file's record first
C16_Witness ==
  /\ ppc.main = "returned"
  /\ Cardinality(Workers) = 2
  /\ Len(scan.Files) = 3
  /\ Len(parsed) = 2
  /\ parsed[1].FilePath = scan.Files[3]

(***************************************************************************)
(* Build (specification SpecBuild).                                        *)
(***************************************************************************)
EdgeSet(edges) == {edges[k] : k \in 1..Len(edges)}

\* the same files in the order of the scan (of FileTable)
ScanOrder(fs) ==
  [k \in 1..Len(fs) |->
     fs[CHOOSE j \in 1..Len(fs) : fs[j].FilePath = FileTable[k].FilePath]]

\* the edge set that Build produces for the files fs
BuildEdgeSet(fs) ==
  EdgeSet(BuildGraph(fs, disk, CHOOSE o \in Perms(MsKeys(fs)) : TRUE).Edges)

\* the edges that the reference scan alone finds for the files fs
RefEdgeSet(fs) ==
  EdgeSet(WithTypeRefEdges(WithVertices(EmptyGraph, fs), fs,
                           CHOOSE o \in Perms(MsKeys(fs)) : TRUE, disk).Edges)

\* the lookup keys of a file: its bare name and its module name
LookupKeys(f) ==
  {FileNameWithoutExt(f.FilePath)} \cup (IF f.ModuleName # <<>> THEN {f.ModuleName} ELSE {})

\* some import's last segment is a lookup key of two files
AmbiguousImport(fs) ==
  \E i, j, k \in 1..Len(fs) :
    /\ i # j
    /\ \E x \in 1..Len(fs[k].Imports) :
         LastSegment(fs[k].Imports[x]) \in LookupKeys(fs[i]) \cap LookupKeys(fs[j])

\* C17 as stated: whatever the order of the parsed-file list (no component
\* has more than 500 candidates), Build produces the same set of edges:
\* the set it produces for the files in the order of the scan.
C17_EdgesOrderIndependent ==
  pc = "built" =>
    /\ EdgeSet(Edges) = BuildEdgeSet(files)
    /\ EdgeSet(Edges) = BuildEdgeSet(ScanOrder(files))

\* C17 amended: the edges found by the reference scan are the same for
\* every order of the list, and so is the whole edge set when no import's
\* last segment is the bare name or module name of two files.
C17_EdgesOrderIndependentUnlessAmbiguous ==
  pc = "built" =>
    /\ RefEdgeSet(files) = RefEdgeSet(ScanOrder(files))
    /\ RefEdgeSet(files) \subseteq EdgeSet(Edges)
    /\ ~AmbiguousImport(files) =>
         /\ EdgeSet(Edges) = BuildEdgeSet(files)
         /\ EdgeSet(Edges) = BuildEdgeSet(ScanOrder(files))

\* three files were delivered out of the order of the scan, without an
\* ambiguous import, and Build found an import edge and a reference edge
C17_Witness ==
  /\ pc = "built"
  /\ Len(files) = 3
  /\ files # ScanOrder(files)
  /\ ~AmbiguousImport(files)
  /\ RefEdgeSet(files) # {}
  /\ EdgeSet(ImportGraph(files).Edges) \ RefEdgeSet(files) # {}

\* the disk on which the files that cannot be read are empty files
EmptyForUnreadable(d) ==
  [path \in DOMAIN d |-> IF d[path].err THEN [err |-> FALSE, data |-> <<>>] ELSE d[path]]

Unreadable == {k \in 1..Len(files) : disk[files[k].FilePath].err}

\* C18: with files that cannot be read Build completes, the graph is the
\* one it builds when those files are empty (so the edges found by scanning
\* the other files are the same), and every edge out of such a file is an
\* import edge.
C18_UnreadableIsSilent ==
  /\ pc \in {"build", "built"}
  /\ pc = "built" =>
       /\ [Vertices |-> Vertices, Edges |-> Edges,
           adjacency |-> adjacency, reverseAdj |-> reverseAdj]
            = BuildGraph(files, EmptyForUnreadable(disk), call.msOrder)
       /\ \A k \in Unreadable :
            {e \in EdgeSet(Edges) : e[1] = files[k].FilePath}
              \subseteq EdgeSet(ImportGraph(files).Edges)

\* Build has completed with the first file unreadable, a later file's scan
\* having found an edge that no import gives
C18_Witness ==
  /\ pc = "built"
  /\ Len(files) >= 2
  /\ 1 \in Unreadable
  /\ \E k \in 2..Len(files) :
       \E e \in EdgeSet(Edges) \ EdgeSet(ImportGraph(files).Edges) :
         e[1] = files[k].FilePath

(***************************************************************************)
(* The adjacency indices and the edge list (Spec).                         *)
(***************************************************************************)
\* the positions of the edge list with source v, and with target v
EdgesFrom(v) == {k \in 1..Len(Edges) : Edges[k][1] = v}
EdgesTo(v)   == {k \in 1..Len(Edges) : Edges[k][2] = v}

\* C27: in every state reachable by AddVertex and AddEdge, OutDegree(v) is
\* the number of edges of the list with source v, InDegree(v) the number
\* with target v, and (s, t) is in the list exactly when t is in the
\* forward set of s, and exactly when s is in the reverse set of t.
C27_IndicesAgree ==
  /\ \A v \in Names :
       /\ OutDegree(v) = Cardinality(EdgesFrom(v))
       /\ InDegree(v) = Cardinality(EdgesTo(v))
  /\ \A s, t \in Names :
       /\ InEdges(s, t) <=> t \in Get(adjacency, s)
       /\ InEdges(s, t) <=> s \in Get(reverseAdj, t)

\* a vertex with two outgoing edges, one of them to a vertex that has an
\* outgoing edge itself
C27_Witness ==
  \E v, w \in Names :
    /\ OutDegree(v) = 2
    /\ InDegree(w) >= 1
    /\ OutDegree(w) >= 1
    /\ InEdges(v, w)

(***************************************************************************)
(* Claims about buildDeclGraph (SpecDecl).                                 *)
(***************************************************************************)
\* buildDeclGraph has returned
Graphed == pc = "graphed"

\* the files of the microservice whose graph gdata is
Component == MsFiles(files, call.ms)

\* max(10, 3 x n)
EdgeBound(n) == IF 3 * n < 10 THEN 10 ELSE 3 * n

\* the candidates of the run after the node cap, and its links before the
\* global cap
RunDecls == CapNodes(AllDecls(Component), PageRankScores, call.tie)
RunLinks ==
  DeclLinks(RunDecls, NodeScores(RunDecls, PageRankScores),
            FileContents(Component, disk), call.tie, call.start)

\* C11: the declaration subgraph that buildDeclGraph returns has at most
\* 80 nodes and at most max(10, 3 x nodeCount) edges, nodeCount being the
\* number of nodes it returns.
C11_SubgraphBounded ==
  Graphed =>
    /\ Len(gdata.Nodes) <= 80
    /\ Len(gdata.Links) <= EdgeBound(Len(gdata.Nodes))

\* a component of more than 80 candidates, cut to 80 nodes, with links
C11_Witness ==
  /\ Graphed
  /\ Len(AllDecls(Component)) > 80
  /\ Len(gdata.Nodes) = 80
  /\ gdata.Links # <<>>

\* the co-location edges of gdata between the nodes of the file f
CoLocationLinks(f) ==
  SelectSeq(gdata.Links, LAMBDA l : l.via = "colocation" /\ l.Source[1] = f.FilePath)

\* no reference signal was detected for a source of the file f: neither
\* Strategy 1, nor 3, nor 4 found a candidate for one of its nodes
NoReferenceSignals(f) ==
  LET sig == Signals(RunDecls, FileContents(Component, disk), f.FilePath)
      ns  == NodeScores(RunDecls, PageRankScores)
  IN  \A k \in 1..Len(sig.nodes) :
        LET sid == NodeID(sig.nodes[k])
        IN  /\ CrossFile(sig, ns, sid) = <<>>
            /\ Schema(sig, ns, sid) = <<>>
            /\ Calls(sig, ns, sid) = <<>>

\* the nodes of gdata that stand for declarations of the file f
NodesOfFile(f) == SelectSeq(gdata.Nodes, LAMBDA n : n.ID[1] = f.FilePath)

\* C12 as stated: a file with exactly 3 declarations and no detected
\* reference signals has exactly 6 co-location edges in the subgraph of
\* its component, one for every ordered pair of its 3 nodes, whatever else
\* the component holds.
C12_SixCoLocationEdges ==
  Graphed =>
    \A k \in 1..Len(Component) :
      (Len(Component[k].Declarations) = 3 /\ NoReferenceSignals(Component[k]))
        => Len(CoLocationLinks(Component[k])) = 6

\* C12, amended: a file with exactly 3 declarations and no detected
\* reference signals has exactly 6 co-location edges when its 3
\* declarations are 3 nodes of the subgraph with 3 different names and
\* the global cap cuts nothing (the links number max(10, 3 x nodeCount) at
\* most before it).
C12_SixCoLocationEdgesWhenUncut ==
  Graphed =>
    \A k \in 1..Len(Component) :
      ( /\ Len(Component[k].Declarations) = 3
        /\ NoReferenceSignals(Component[k])
        /\ Cardinality({NodesOfFile(Component[k])[j].Label :
                          j \in 1..Len(NodesOfFile(Component[k]))}) = 3
        /\ Len(RunLinks) <= EdgeBound(Len(gdata.Nodes)) )
        => Len(CoLocationLinks(Component[k])) = 6

\* a file of 3 declarations, without reference signals, in a component
\* with a second file, and its 6 co-location edges
C12_Witness ==
  /\ Graphed
  /\ Len(Component) = 2
  /\ \E k \in 1..2 :
       /\ Len(Component[k].Declarations) = 3
       /\ NoReferenceSignals(Component[k])
       /\ Len(NodesOfFile(Component[k])) = 3
       /\ Len(CoLocationLinks(Component[k])) = 6
       /\ Len(NodesOfFile(Component[3 - k])) >= 2

\* C13 as stated: a file with exactly 1 declaration, or with more than 20
\* declarations, has no co-location edge in the subgraph of any component
\* it belongs to, the components cut down to 80 candidates included.
C13_NoCoLocationEdges ==
  Graphed =>
    \A k \in 1..Len(Component) :
      (Len(Component[k].Declarations) = 1 \/ Len(Component[k].Declarations) > 20)
        => Len(CoLocationLinks(Component[k])) = 0

(***************************************************************************)
(* Claims about the order of the phases (SpecRun).                         *)
(***************************************************************************)
\* Build has completed: every file is a vertex and the edges are those of
\* Build for the files
BuildCompleted ==
  /\ Vertices = {files[k].FilePath : k \in 1..Len(files)}
  /\ \E msOrder \in Perms(MsKeys(files)) : Edges = BuildGraph(files, disk, msOrder).Edges

\* Analyze has produced the scores: all the passes of computePageRank are
\* done and their result is PageRankScores, a score for every vertex
ScoresProduced ==
  \/ Vertices = {} /\ PageRankScores = EmptyMap
  \/ /\ iter = Iterations
     /\ PageRankScores = scores
     /\ DOMAIN PageRankScores = Vertices

\* a step that reads the scores: a call of GetTopHotspots or of
\* buildDeclGraph
ReadsScores ==
  \/ GetTopHotspots(MainLimit)
  \/ GetTopHotspots(ReportLimit)
  \/ BuildDeclGraph

\* C15: in every run the phases are strictly ordered: no score is read, by
\* GetTopHotspots or by buildDeclGraph, before Build has completed and
\* Analyze has produced the scores, and the graph (vertices, edges,
\* adjacency) is not changed once Build has returned.
C15_PhasesOrdered ==
  /\ [][ReadsScores => (BuildCompleted /\ ScoresProduced)]_vars
  /\ [][pc # "build" => UNCHANGED graphVars]_vars

\* a run over two files with edges, at its end: the hotspots listed and
\* the declaration graph built
C15_Witness ==
  /\ pc = "graphed"
  /\ Len(files) = 2
  /\ Edges # <<>>
  /\ hotspots # <<>>
  /\ gdata.Nodes # <<>>

(***************************************************************************)
(* The two word-boundary matchers (SpecMatch).                             *)
(***************************************************************************)
\* the name stands in the text at position i with no identifier character
\* before it and none after it
OccursAt(content, typeName, i) ==
  /\ SubSeq(content, i, i + Len(typeName) - 1) = typeName
  /\ i = 1 \/ ~isWordChar(content[i - 1])
  /\ i + Len(typeName) > Len(content) \/ ~isWordChar(content[i + Len(typeName)])

Occurs(content, typeName) ==
  \E i \in 1..(Len(content) - Len(typeName) + 1) : OccursAt(content, typeName, i)

\* C26: for every text and every name of one or more identifier
\* characters, containsTypeName and matchGoTypeRef return the same result,
\* true exactly when the name occurs with a non-identifier character or
\* the end of the text on both sides; both return.
C26_MatchersAgree ==
  pc = "matched" =>
    /\ call.file = call.decl
    /\ call.file = Occurs(disk[MatchPath].data, files[1].Declarations[1].Name)

\* a text in which the first occurrence of the name is part of a longer
\* word and a later one is not
C26_Witness ==
  /\ pc = "matched"
  /\ call.file
  /\ call.decl
  /\ ~OccursAt(disk[MatchPath].data, files[1].Declarations[1].Name,
               IndexFrom(disk[MatchPath].data, files[1].Declarations[1].Name, 1))

(***************************************************************************)
(* Imports whose last segment names several files (SpecBuild).             *)
(***************************************************************************)
\* the positions in the file list of the files that have the key
Holders(baseName) == {k \in 1..Len(files) : baseName \in LookupKeys(files[k])}

Smallest(S) == CHOOSE k \in S : \A j \in S : k <= j
Largest(S)  == CHOOSE k \in S : \A j \in S : k >= j

\* the imports of the run whose last segment is a key of two files or
\* more: pairs of the importing file's position and the import's
AmbiguousImports ==
  {kx \in UNION {{<<k, x>> : x \in 1..Len(files[k].Imports)} : k \in 1..Len(files)} :
     Cardinality(Holders(LastSegment(files[kx[1]].Imports[kx[2]]))) >= 2}

\* C24 as stated: an import whose last segment is the bare name or the
\* package name of several files resolves to the first of them in the
\* file list, and the graph has the edge from the importing file to it.
C24_ResolvesToFirst ==
  pc = "built" =>
    \A kx \in AmbiguousImports :
      LET src   == files[kx[1]].FilePath
          first == files[Smallest(Holders(LastSegment(files[kx[1]].Imports[kx[2]])))].FilePath
      IN  src # first => InEdges(src, first)

\* C24, amended: such an import resolves to the last of these files in
\* the file list: the graph has the edge from the importing file to it
\* unless it is the importing file itself, and has an edge from the
\* importing file to another of them only if another import of the file
\* resolves to that one or the reference scan finds that edge.
C24_ResolvesToLast ==
  pc = "built" =>
    \A kx \in AmbiguousImports :
      LET src  == files[kx[1]]
          H    == Holders(LastSegment(src.Imports[kx[2]]))
          last == files[Largest(H)].FilePath
      IN  /\ src.FilePath # last => InEdges(src.FilePath, last)
          /\ \A j \in H \ {Largest(H)} :
               InEdges(src.FilePath, files[j].FilePath) =>
                 \/ <<src.FilePath, files[j].FilePath>> \in RefEdgeSet(files)
                 \/ \E y \in 1..Len(src.Imports) :
                      /\ Holders(LastSegment(src.Imports[y])) # {}
                      /\ Largest(Holders(LastSegment(src.Imports[y]))) = j

\* a file importing a name that two other files have: the edge to the
\* later of the two, none to the earlier
C24_Witness ==
  /\ pc = "built"
  /\ \E kx \in AmbiguousImports :
       LET src == files[kx[1]].FilePath
           H   == Holders(LastSegment(files[kx[1]].Imports[kx[2]]))
       IN  /\ kx[1] \notin H
           /\ InEdges(src, files[Largest(H)].FilePath)
           /\ ~InEdges(src, files[Smallest(H)].FilePath)

(***************************************************************************)
(* parseParallel under fair scheduling (SpecParseFair).                    *)
(***************************************************************************)
AllWorkersDone == \A w \in Workers : worker[w].pc = "done"

\* C28: parseParallel terminates under every fair interleaving, for every
\* number of files from zero on: the caller returns, no worker is left
\* sending or panics on a closed channel, jobs is closed only after all
\* jobs are queued, results is closed once and only after all workers
\* are done, and the collecting loop ends with results drained.
C28_Terminates ==
  /\ <>(ppc.main = "returned")
  /\ [](\A w \in Workers : worker[w].pc # "panic")
  /\ [](jobs.closed => ppc.next > Len(scan.Files))
  /\ [](results.closed => AllWorkersDone /\ jobs.closed)
  /\ [][CloseResults => ~results.closed]_vars
  /\ [](ppc.main = "returned" =>
         AllWorkersDone /\ results.closed /\ results.buf = <<>> /\ jobs.buf = <<>>)

\* the caller has returned from a run of two workers over several files,
\* with results collected
C28_Witness ==
  /\ ppc.main = "returned"
  /\ Cardinality(Workers) = 2
  /\ Len(scan.Files) >= 2
  /\ Len(parsed) >= 2

\* the caller has returned from a run over no files
C28_WitnessNoFiles ==
  /\ ppc.main = "returned"
  /\ Len(scan.Files) = 0

(***************************************************************************)
(* The edges and the nodes that buildDeclGraph keeps (SpecDecl).           *)
(***************************************************************************)
\* what the four strategies detect for the source sid, pairs found by
\* several of them several times
Detections(sig, sc, sid) ==
  CrossFile(sig, sc, sid) \o CoLocated(sig, sc, sid) \o Schema(sig, sc, sid) \o Calls(sig, sc, sid)

\* the pairs (source, target) of the returned links
LinkPairs == {<<gdata.Links[i].Source, gdata.Links[i].Target>> : i \in 1..Len(gdata.Links)}

\* the targets of the returned links of the source sid
KeptTargets(sid) ==
  {gdata.Links[i].Target : i \in {j \in 1..Len(gdata.Links) : gdata.Links[j].Source = sid}}

\* the score of the returned node with the id
NodeScoreOf(id) ==
  gdata.Nodes[CHOOSE k \in 1..Len(gdata.Nodes) : gdata.Nodes[k].ID = id].Score

\* C21: the edge list of a declaration subgraph holds every ordered pair
\* (source, target) of node ids at most once, however many of the four
\* signals detect the pair.
C21_PairsOnce ==
  Graphed => Cardinality(LinkPairs) = Len(gdata.Links)

\* a pair that two signals detect is in the edge list, once
C21_Witness ==
  /\ Graphed
  /\ LET ad == RunDecls
         ns == NodeScores(ad, PageRankScores)
         fc == FileContents(Component, disk)
     IN  \E k \in 1..Len(ad) :
           LET sid == NodeID(ad[k])
               det == Detections(Signals(ad, fc, ad[k].fp), ns, sid)
           IN  \E i, j \in 1..Len(det) :
                 /\ i # j
                 /\ det[i].target = det[j].target
                 /\ det[i].via # det[j].via
                 /\ Len(SelectSeq(gdata.Links,
                        LAMBDA l : l.Source = sid /\ l.Target = det[i].target)) = 1

\* C22: every source node has at most 5 outgoing edges, and of the
\* candidate edges of a source no dropped one has a target of strictly
\* higher score than the target of a kept one.
C22_FiveHighestKept ==
  Graphed =>
    LET ad == RunDecls
        ns == NodeScores(ad, PageRankScores)
        fc == FileContents(Component, disk)
    IN  \A fp \in {ad[k].fp : k \in 1..Len(ad)} :
          LET sig == Signals(ad, fc, fp)
          IN  \A k \in 1..Len(sig.nodes) :
                LET sid   == NodeID(sig.nodes[k])
                    cands == Outgoing(sig, ns, sid)
                    kept  == KeptTargets(sid)
                IN  /\ Len(SelectSeq(gdata.Links, LAMBDA l : l.Source = sid)) <= 5
                    /\ kept \subseteq {cands[c].target : c \in 1..Len(cands)}
                    /\ \A c \in 1..Len(cands) :
                         cands[c].target \notin kept =>
                           \A t \in kept : ~FGreater(NodeScoreOf(cands[c].target), NodeScoreOf(t))

\* a source with more than 5 candidates has 5 edges, and a candidate
\* found before a kept one was dropped for its lower score
C22_Witness ==
  /\ Graphed
  /\ LET ad == RunDecls
         ns == NodeScores(ad, PageRankScores)
         fc == FileContents(Component, disk)
     IN  \E k \in 1..Len(ad) :
           LET sid   == NodeID(ad[k])
               cands == Outgoing(Signals(ad, fc, ad[k].fp), ns, sid)
               kept  == KeptTargets(sid)
           IN  /\ Len(cands) > 5
               /\ Cardinality(kept) = 5
               /\ \E c, d \in 1..Len(cands) :
                    /\ c < d
                    /\ cands[c].target \notin kept
                    /\ cands[d].target \in kept
                    /\ FGreater(NodeScoreOf(cands[d].target), NodeScoreOf(cands[c].target))

\* the number of candidates, and of returned nodes, of the file fp
CandidatesOf(all, fp) == Len(SelectSeq(all, LAMBDA d : d.fp = fp))
NodesOf(fp) == Len(SelectSeq(gdata.Nodes, LAMBDA n : n.ID[1] = fp))

\* C23: of more than 80 candidate declarations the 80 kept as nodes are
\* those of the files with the highest scores: no dropped candidate is of
\* a file with a strictly higher score than the file of a kept one; 80
\* candidates or fewer are all kept.
C23_HighestFilesKept ==
  Graphed =>
    LET all == AllDecls(Component)
        fps == {all[k].fp : k \in 1..Len(all)}
    IN  IF Len(all) <= 80
          THEN [k \in 1..Len(gdata.Nodes) |-> gdata.Nodes[k].ID]
                 = [k \in 1..Len(all) |-> NodeID(all[k])]
          ELSE /\ Len(gdata.Nodes) = 80
               /\ \A fp \in fps : NodesOf(fp) <= CandidatesOf(all, fp)
               /\ \A fd, fk \in fps :
                    (NodesOf(fd) < CandidatesOf(all, fd) /\ NodesOf(fk) > 0) =>
                      ~FGreater(Score(PageRankScores, fd), Score(PageRankScores, fk))

\* of 81 candidates one of the first file is dropped: the second file has
\* the higher score and keeps all of its own
C23_Witness ==
  /\ Graphed
  /\ Len(Component) = 2
  /\ LET all == AllDecls(Component)
         f1  == Component[1].FilePath
         f2  == Component[2].FilePath
     IN  /\ Len(all) > 80
         /\ Len(gdata.Nodes) = 80
         /\ FGreater(Score(PageRankScores, f2), Score(PageRankScores, f1))
         /\ NodesOf(f1) < CandidatesOf(all, f1)
         /\ NodesOf(f2) = CandidatesOf(all, f2)

(***************************************************************************)
(* Schema linkage, self-loops and node ids of buildDeclGraph (SpecDecl).   *)
(***************************************************************************)
\* the declarations of the component's files, each with its file
FileDecls ==
  UNION {{[fp |-> Component[i].FilePath, name |-> Component[i].Declarations[j].Name,
           kind |-> Component[i].Declarations[j].Kind] :
            j \in 1..Len(Component[i].Declarations)} : i \in 1..Len(Component)}

\* C25: for every service-kind node S and every message-kind or rpc-kind
\* declaration D of the component whose name occurs, between word
\* boundaries, in the file of S, the candidate edges built before the caps
\* hold an edge from S to D, for rpc-kind targets as for message-kind ones.
C25_SchemaLinkage ==
  Graphed =>
    LET ad == RunDecls
        ns == NodeScores(ad, PageRankScores)
        fc == FileContents(Component, disk)
    IN  \A k \in {j \in 1..Len(ad) : ad[j].kind = "service"} :
          LET cands == Outgoing(Signals(ad, fc, ad[k].fp), ns, NodeID(ad[k]))
          IN  \A d \in {x \in FileDecls : x.kind \in {"message", "rpc"}} :
                matchGoTypeRef(ContentOf(fc, ad[k].fp), d.name) =>
                  \E c \in 1..Len(cands) : cands[c].target = <<d.fp, d.name>>

\* C29: no returned link of a declaration subgraph has a source id equal
\* to its target id, whichever signal produced it.
C29_NoSelfLoops ==
  Graphed => \A i \in 1..Len(gdata.Links) : gdata.Links[i].Source # gdata.Links[i].Target

\* C30: no two nodes of the returned node list have the same composite id
\* (file, declarationName), also when a file declares a name more than
\* once or in more than one kind.
C30_NodeIdsUnique ==
  Graphed =>
    \A i, j \in 1..Len(gdata.Nodes) : i # j => gdata.Nodes[i].ID # gdata.Nodes[j].ID

====
